------------------------------ MODULE Spec2Model ------------------------------
(***************************************************************************)
(* A model of the account summarizers of the repository:                   *)
(*   root  - src/account_summarizer.py              (round-robin canon)    *)
(*   v3    - src/scripts/account_summarizer_v3.py   (quota canon, dedupe)  *)
(*   orbit - src/scripts/account_summarizer.py      (assign_orbits)        *)
(* Text is a sequence of one-character strings, so that lowercasing,       *)
(* substring containment and token extraction are computed, not assumed.   *)
(***************************************************************************)
EXTENDS Integers, Sequences, FiniteSets, TLC

(***************************************************************************)
(* State of one build_report / build_summary / balanced_sample call        *)
(***************************************************************************)
VARIABLES
  impl,               \* "root": account_summarizer.py, "v3": account_summarizer_v3.py,
                      \* "orbit": scripts/account_summarizer.py
  thematic_map,       \* the name of the theme map in force (see Map)
  sentences,          \* split_sentences(corpus)
  target_sentences,
  max_per_domain,
  dedupe_threshold,   \* a fraction [num, den]
  pc,                 \* "read", "classify", "sample", "break", "canon", "done", "raised",
                      \* "assigned", "loop", "guard", "call", "returned", "build",
                      \* "indexed", "SystemExit", "reported"
  cur,                  \* the classification loop's position in sentences
  bucket_keys,        \* the keys of domain_buckets in insertion order
  domain_buckets,
  domain_ranked,      \* theme -> <<sentence, score>> pairs, best first
  domain_order,
  executive_summary,  \* <<theme, sentence>> pairs, for "theme: sentence"
  domain_ranked_copy, \* root: the copy balanced_sample pops from
  index,              \* root: balanced_sample's index
  picked,             \* root: balanced_sample's picked
  quota,              \* v3
  canonical,          \* v3: the list the quota loop appends to
  canonical_from,     \* v3: the theme whose turn appended each entry of canonical
  pos_d,              \* v3: the quota loop's position in domain_order
  pos_k,              \* v3: and in that theme's ranked pool
  canonical_sentences,\* the report's canonical list
  inventories,
  run,                \* 1, or 2 when the same input is processed again
  first,              \* what the first run returned, once a second run has started
  pool_left,          \* balanced_sample called on its own: theme -> length of its pool
  picked_count,       \* and len(picked)
  call,               \* a function called on its own: its name and arguments
  ret                 \* and what it returned

(* A character outside ASCII is written by its code point, "U+03B2"; the theme names *)
(* are labels, with U+2011 written "-" and U+00B7 written "U+00B7".                    *)
(* The stop-word list shared by account_summarizer.py and scripts/account_summarizer_v3.py, *)
(* each word spelled as its sequence of characters.                                   *)
STOPWORDS ==
  {
    <<"a">>, <<"a","b","o","u","t">>, <<"a","b","o","v","e">>, <<"a","f","t","e","r">>,
    <<"a","g","a","i","n">>, <<"a","g","a","i","n","s","t">>, <<"a","l","l">>,
    <<"a","l","s","o">>, <<"a","m">>, <<"a","n">>, <<"a","n","d">>, <<"a","n","y">>,
    <<"a","r","e">>, <<"a","r","e","n","'","t">>, <<"a","s">>, <<"a","t">>, <<"b","e">>,
    <<"b","e","c","a","u","s","e">>, <<"b","e","e","n">>, <<"b","e","f","o","r","e">>,
    <<"b","e","i","n","g">>, <<"b","e","l","o","w">>, <<"b","e","t","w","e","e","n">>,
    <<"b","o","t","h">>, <<"b","u","t">>, <<"b","y">>, <<"c","a","n">>, <<"c","a","n","'","t">>,
    <<"c","a","n","n","o","t">>, <<"c","o","u","l","d">>, <<"c","o","u","l","d","n","'","t">>,
    <<"d","i","d">>, <<"d","i","d","n","'","t">>, <<"d","o">>, <<"d","o","e","s">>,
    <<"d","o","e","s","n","'","t">>, <<"d","o","i","n","g">>, <<"d","o","n","'","t">>,
    <<"d","o","w","n">>, <<"d","u","r","i","n","g">>, <<"e","a","c","h">>, <<"f","e","w">>,
    <<"f","o","r">>, <<"f","r","o","m">>, <<"f","u","r","t","h","e","r">>, <<"h","a","d">>,
    <<"h","a","d","n","'","t">>, <<"h","a","s">>, <<"h","a","s","n","'","t">>,
    <<"h","a","v","e">>, <<"h","a","v","e","n","'","t">>, <<"h","a","v","i","n","g">>,
    <<"h","e">>, <<"h","e","'","d">>, <<"h","e","'","l","l">>, <<"h","e","'","s">>,
    <<"h","e","r">>, <<"h","e","r","e">>, <<"h","e","r","e","'","s">>, <<"h","e","r","s">>,
    <<"h","e","r","s","e","l","f">>, <<"h","i","m">>, <<"h","i","m","s","e","l","f">>,
    <<"h","i","s">>, <<"h","o","w">>, <<"h","o","w","'","s">>, <<"i">>, <<"i","'","d">>,
    <<"i","'","l","l">>, <<"i","'","m">>, <<"i","'","v","e">>, <<"i","f">>, <<"i","n">>,
    <<"i","n","t","o">>, <<"i","s">>, <<"i","s","n","'","t">>, <<"i","t">>, <<"i","t","'","s">>,
    <<"i","t","s">>, <<"i","t","s","e","l","f">>, <<"l","e","t","'","s">>, <<"m","e">>,
    <<"m","o","r","e">>, <<"m","o","s","t">>, <<"m","u","s","t","n","'","t">>, <<"m","y">>,
    <<"m","y","s","e","l","f">>, <<"n","o">>, <<"n","o","r">>, <<"n","o","t">>, <<"n","o","w">>,
    <<"o","f">>, <<"o","f","f">>, <<"o","n">>, <<"o","n","c","e">>, <<"o","n","l","y">>,
    <<"o","r">>, <<"o","t","h","e","r">>, <<"o","u","g","h","t">>, <<"o","u","r">>,
    <<"o","u","r","s">>, <<"o","u","r","s","e","l","v","e","s">>, <<"o","u","t">>,
    <<"o","v","e","r">>, <<"o","w","n">>, <<"s","a","m","e">>, <<"s","h","a","n","'","t">>,
    <<"s","h","e">>, <<"s","h","e","'","d">>, <<"s","h","e","'","l","l">>,
    <<"s","h","e","'","s">>, <<"s","h","o","u","l","d">>,
    <<"s","h","o","u","l","d","n","'","t">>, <<"s","o">>, <<"s","o","m","e">>,
    <<"s","u","c","h">>, <<"t","h","a","n">>, <<"t","h","a","t">>, <<"t","h","a","t","'","s">>,
    <<"t","h","e">>, <<"t","h","e","i","r">>, <<"t","h","e","i","r","s">>, <<"t","h","e","m">>,
    <<"t","h","e","m","s","e","l","v","e","s">>, <<"t","h","e","n">>, <<"t","h","e","r","e">>,
    <<"t","h","e","r","e","'","s">>, <<"t","h","e","s","e">>, <<"t","h","e","y">>,
    <<"t","h","e","y","'","d">>, <<"t","h","e","y","'","l","l">>,
    <<"t","h","e","y","'","r","e">>, <<"t","h","e","y","'","v","e">>, <<"t","h","i","s">>,
    <<"t","h","o","s","e">>, <<"t","h","r","o","u","g","h">>, <<"t","o">>, <<"t","o","o">>,
    <<"u","n","d","e","r">>, <<"u","n","t","i","l">>, <<"u","p">>, <<"v","e","r","y">>,
    <<"w","a","s">>, <<"w","a","s","n","'","t">>, <<"w","e">>, <<"w","e","'","d">>,
    <<"w","e","'","l","l">>, <<"w","e","'","r","e">>, <<"w","e","'","v","e">>,
    <<"w","e","r","e">>, <<"w","e","r","e","n","'","t">>, <<"w","h","a","t">>,
    <<"w","h","a","t","'","s">>, <<"w","h","e","n">>, <<"w","h","e","n","'","s">>,
    <<"w","h","e","r","e">>, <<"w","h","e","r","e","'","s">>, <<"w","h","i","c","h">>,
    <<"w","h","i","l","e">>, <<"w","h","o">>, <<"w","h","o","'","s">>, <<"w","h","o","m">>,
    <<"w","h","y">>, <<"w","h","y","'","s">>, <<"w","i","t","h">>, <<"w","o","n","'","t">>,
    <<"w","o","u","l","d">>, <<"w","o","u","l","d","n","'","t">>, <<"y","o","u">>,
    <<"y","o","u","'","d">>, <<"y","o","u","'","l","l">>, <<"y","o","u","'","r","e">>,
    <<"y","o","u","'","v","e">>, <<"y","o","u","r">>, <<"y","o","u","r","s">>,
    <<"y","o","u","r","s","e","l","f">>, <<"y","o","u","r","s","e","l","v","e","s">>
  }

(* STOPWORDS of scripts/account_summarizer.py *)
STOPWORDS_orbit ==
  {
    <<"a">>, <<"a","b","o","u","t">>, <<"a","b","o","v","e">>, <<"a","f","t","e","r">>,
    <<"a","g","a","i","n">>, <<"a","g","a","i","n","s","t">>, <<"a","l","l">>,
    <<"a","l","s","o">>, <<"a","m">>, <<"a","n">>, <<"a","n","d">>, <<"a","n","y">>,
    <<"a","r","e">>, <<"a","s">>, <<"a","t">>, <<"b","e">>, <<"b","e","c","a","u","s","e">>,
    <<"b","e","e","n">>, <<"b","e","f","o","r","e">>, <<"b","e","i","n","g">>,
    <<"b","e","l","o","w">>, <<"b","e","t","w","e","e","n">>, <<"b","o","t","h">>,
    <<"b","u","t">>, <<"b","y">>, <<"c","a","n">>, <<"c","o","u","l","d">>, <<"d","i","d">>,
    <<"d","o">>, <<"d","o","e","s">>, <<"d","o","i","n","g">>, <<"d","o","w","n">>,
    <<"d","u","r","i","n","g">>, <<"e","a","c","h">>, <<"f","e","w">>, <<"f","o","r">>,
    <<"f","r","o","m">>, <<"f","u","r","t","h","e","r">>, <<"h","a","d">>, <<"h","a","s">>,
    <<"h","a","v","e">>, <<"h","a","v","i","n","g">>, <<"h","e">>, <<"h","e","r">>,
    <<"h","e","r","e">>, <<"h","e","r","s">>, <<"h","e","r","s","e","l","f">>, <<"h","i","m">>,
    <<"h","i","m","s","e","l","f">>, <<"h","i","s">>, <<"h","o","w">>, <<"i">>, <<"i","f">>,
    <<"i","n">>, <<"i","n","t","o">>, <<"i","s">>, <<"i","t">>, <<"i","t","s">>,
    <<"i","t","s","e","l","f">>, <<"l","e","t">>, <<"m","e">>, <<"m","o","r","e">>,
    <<"m","o","s","t">>, <<"m","y">>, <<"m","y","s","e","l","f">>, <<"n","o">>, <<"n","o","r">>,
    <<"n","o","t">>, <<"n","o","w">>, <<"o","f">>, <<"o","f","f">>, <<"o","n">>,
    <<"o","n","c","e">>, <<"o","n","l","y">>, <<"o","r">>, <<"o","t","h","e","r">>,
    <<"o","u","r">>, <<"o","u","r","s">>, <<"o","u","r","s","e","l","v","e","s">>,
    <<"o","u","t">>, <<"o","v","e","r">>, <<"o","w","n">>, <<"s","a","m","e">>, <<"s","h","e">>,
    <<"s","h","o","u","l","d">>, <<"s","o">>, <<"s","o","m","e">>, <<"s","u","c","h">>,
    <<"t","h","a","n">>, <<"t","h","a","t">>, <<"t","h","e">>, <<"t","h","e","i","r">>,
    <<"t","h","e","i","r","s">>, <<"t","h","e","m">>,
    <<"t","h","e","m","s","e","l","v","e","s">>, <<"t","h","e","n">>, <<"t","h","e","r","e">>,
    <<"t","h","e","s","e">>, <<"t","h","e","y">>, <<"t","h","i","s">>, <<"t","h","o","s","e">>,
    <<"t","h","r","o","u","g","h">>, <<"t","o">>, <<"t","o","o">>, <<"u","n","d","e","r">>,
    <<"u","n","t","i","l">>, <<"u","p">>, <<"v","e","r","y">>, <<"w","a","s">>, <<"w","e">>,
    <<"w","e","r","e">>, <<"w","h","a","t">>, <<"w","h","e","n">>, <<"w","h","e","r","e">>,
    <<"w","h","i","c","h">>, <<"w","h","i","l","e">>, <<"w","h","o">>, <<"w","h","o","m">>,
    <<"w","h","y">>, <<"w","i","t","h">>, <<"w","o","u","l","d">>, <<"y","o","u">>,
    <<"y","o","u","r">>, <<"y","o","u","r","s">>, <<"y","o","u","r","s","e","l","f">>,
    <<"y","o","u","r","s","e","l","v","e","s">>
  }

(* THEMATIC_MAP of account_summarizer.py: the themes in dictionary order, each with its keywords. *)
THEMATIC_MAP ==
  <<
    [name |-> "OS Core & Runtime",
     kws |-> <<
       <<"s","p","o","r","e","n","e","t">>, <<"s","p","o","r","e","c","o","r","e">>,
       <<"s","p","o","r","e","v","m">>, <<"s","p","o","r","e","l","a","n","g">>,
       <<"l","i","c","e","n","s","e","-","g","a","t","e">>, <<"k","(",")">>,
       <<"r","u","n","t","i","m","e">>, <<"k","e","r","n","e","l">>,
       <<"o","r","c","h","e","s","t","r","a","t","o","r">>, <<"a","e","n","g">> >>],
    [name |-> "Simulation & Research Engines",
     kws |-> <<
       <<"c","u","l","t","i","v","a","t","i","o","n"," ","a","l","g","e","b","r","a">>,
       <<"o","p","e","r","a","t","o","r"," ","i","d","e">>,
       <<"s","i","m","_","a","u","t","o","m","a","t","a","-","4","4","4","7","x">>,
       <<"r","e","e","f">>, <<"m","a","n","a"," ","s","t","r","e","a","m">>,
       <<"s","i","m","u","l","a","t","i","o","n">>, <<"o","p","e","r","a","t","o","r","s">>,
       <<"r","e","c","u","r","s","i","o","n">> >>],
    [name |-> "Index, Market & Exchange",
     kws |-> <<
       <<"s","c","i">>, <<"b","e","n","c","h","m","a","r","k">>,
       <<"m","e","t","h","o","d","o","l","o","g","y">>, <<"i","o","s","c","o">>,
       <<"f","u","t","u","r","e","s">>, <<"m","a","r","k","e","t","-","m","a","k","e","r">>,
       <<"l","i","s","t","i","n","g">>,
       <<"p","u","b","l","i","c","a","t","i","o","n"," ","f","e","e","d">>,
       <<"s","u","b","-","i","n","d","e","x">> >>],
    [name |-> "Certification, Identity, Integrity",
     kws |-> <<
       <<"s","p","o","r","e","c","e","r","t">>, <<"c","a","a","s">>,
       <<"t","r","u","t","h","s","e","a","l">>, <<"s","p","o","r","e","s","e","a","l">>,
       <<"s","y","m","b","o","l","i","c"," ","i","d","e","n","t","i","t","y"," ","l","e","d","g","e","r">>,
       <<"s","i","l">>, <<"s","e","i","f">>, <<"q","-","r","e","p","o","r","t">>,
       <<"t","r","e","a","s","u","r","y"," ","l","e","d","g","e","r">>,
       <<"v","e","r","i","f","i","c","a","t","i","o","n">> >>],
    [name |-> "Developer Docs & Knowledge",
     kws |-> <<
       <<"d","e","v","e","l","o","p","e","r"," ","h","a","n","d","b","o","o","k">>,
       <<"f","i","e","l","d"," ","g","u","i","d","e">>,
       <<"s","y","m","b","o","l","i","c"," ","s","y","s","t","e","m","s"," ","p","a","r","a","d","i","g","m">>,
       <<"s","s","p">>, <<"w","h","i","t","e"," ","p","a","p","e","r">>, <<"a","p","i">>,
       <<"s","d","k">>, <<"b","i","n","d","i","n","g"," ","m","a","n","i","f","e","s","t">>,
       <<"d","o","c","s">> >>],
    [name |-> "Bio-mimetic / Cognitive Models",
     kws |-> <<
       <<"m","e","n","d","o">>, <<"p","l","a","n","t","-","b","r","a","i","n">>,
       <<"m","o","r","p","h","o","l","o","g","y">>, <<"k","r","o","n","o","s">>,
       <<"l","i","n","e","a","g","e">>, <<"f","o","r","g","e">>,
       <<"p","o","l","y","g","n","o","m","e">>, <<"g","r","o","w","t","h","_","p","a","t","h">>,
       <<"c","l","u","s","t","e","r","_","s","c","o","r","e">> >>],
    [name |-> "Topology & Pattern Tools",
     kws |-> <<
       <<"t","o","p","o","l","o","g","y"," ","l","a","b">>, <<"b","e","t","t","i">>,
       <<"U+03B2","U+2080">>, <<"U+03B2","U+2081">>, <<"U+03C7">>,
       <<"p","e","r","i","m","e","t","e","r">>, <<"p","n","g">>,
       <<"t","o","p","o","l","o","g","y"," ","j","s","o","n">>,
       <<"s","i","m","u","l","a","t","o","r">> >>],
    [name |-> "Standards, Laws, Governance",
     kws |-> <<
       <<"i","s","o","-","4","4","4","7","-","s">>, <<"m","o","d","e","l"," ","l","a","w">>,
       <<"w","i","p","o","-","s","i","a">>, <<"s","e","p","s"," ","a","c","t">>,
       <<"l","a","w","b","o","o","k">>, <<"g","o","v","e","r","n","a","n","c","e">>,
       <<"t","r","e","a","t","y">>, <<"c","o","d","e","x">>,
       <<"c","o","m","p","l","i","a","n","c","e">> >>],
    [name |-> "Packages, Bundles, Artifacts",
     kws |-> <<
       <<".","s","p","o","r","e","m","o","d">>,
       <<".","s","y","m","q","1","_","p","a","c","k","e","t">>,
       <<".","t","r","u","t","h","s","e","a","l">>,
       <<".","t","r","u","t","h","b","u","n","d","l","e">>,
       <<".","c","a","a","s","_","b","u","n","d","l","e">>, <<".","s","d","k">>,
       <<".","s","i","l",".","j","s","o","n">>, <<"p","r","e","a","m","b","l","e">>,
       <<"a","r","c","h","i","v","e">>, <<"c","a","p","s","u","l","e">> >>],
    [name |-> "Compliance & Provenance Plumbing",
     kws |-> <<
       <<"c","2","p","a">>,
       <<"v","e","r","i","f","i","a","b","l","e"," ","c","r","e","d","e","n","t","i","a","l","s">>,
       <<"w","3","c">>, <<"o","p","e","n","t","i","m","e","s","t","a","m","p","s">>,
       <<"o","r","i","g","i","n","s","t","a","m","p">>, <<"s","h","a","-","2","5","6">>,
       <<"h","a","s","h">>, <<"l","i","n","e","a","g","e"," ","g","r","a","p","h">>,
       <<"a","i"," ","d","i","s","c","l","o","s","u","r","e">>,
       <<"p","r","i","v","a","c","y"," ","m","i","n","i","m","i","z","a","t","i","o","n">> >>],
    [name |-> "Operating Policies & Governance",
     kws |-> <<
       <<"p","u","b","l","i","c","a","t","i","o","n"," ","p","o","l","i","c","y">>,
       <<"r","e","s","t","a","t","e","m","e","n","t">>, <<"h","o","l","i","d","a","y">>,
       <<"r","e","v","o","c","a","t","i","o","n">>,
       <<"a","u","d","i","t"," ","r","e","t","e","n","t","i","o","n">>,
       <<"t","r","e","a","s","u","r","y"," ","p","o","l","i","c","y">>,
       <<"m","a","r","k","e","t"," ","c","o","m","m","s">>,
       <<"c","i","r","c","u","l","a","r","s">>, <<"p","r","e","s","s">> >>],
    [name |-> "Analytics, Scoring, Wellbeing",
     kws |-> <<
       <<"s","y","m","q","-","1">>, <<"t","e","l","e","m","e","t","r","y">>,
       <<"U+0394","c","(","t",")">>, <<"s","(","h",",","t",")">>,
       <<"a","c","c","e","p","t","a","n","c","e"," ","e","n","g","i","n","e">>,
       <<"a","e","n","g">>, <<"m","e","t","r","i","c","s">>,
       <<"w","e","l","l","b","e","i","n","g">>,
       <<"l","o","g","g","i","n","g"," ","k","e","y","s">> >>],
    [name |-> "Visual Systems & Narrative",
     kws |-> <<
       <<"s","c","e","n","e"," ","o","r","a","c","l","e">>,
       <<"t","r","u","t","h","r","e","e","l">>,
       <<"n","u","c","l","e","a","r"," ","g","l","y","p","h","i","c"," ","e","m","i","t","t","e","r">>,
       <<"t","r","e","e","U+2192","p","a","r","t","i","c","l","e","U+2192","g","r","i","d">>,
       <<"g","a","l","l","e","r","y">>, <<"h","i","g","h"," ","h","o","p","e","s">>,
       <<"s","t","o","r","y","b","o","a","r","d">>, <<"c","i","n","e","m","a","t","i","c">> >>],
    [name |-> "Systems, Endpoints, & Files",
     kws |-> <<
       <<"/","v","e","r","i","f","y","/">>,
       <<"r","e","v","o","c","a","t","i","o","n","/","l","i","s","t">>,
       <<"a","r","t","i","f","a","c","t","/">>,
       <<"c","o","n","s","t","i","t","u","e","n","t","s"," ","f","i","l","e">>,
       <<"l","e","d","g","e","r"," ","d","i","g","e","s","t">>,
       <<"a","r","c","h","i","t","e","c","t","u","r","e"," ","d","i","a","g","r","a","m">>,
       <<"f","i","n","a","n","c","i","a","l"," ","f","o","r","e","c","a","s","t">>,
       <<"p","i","t","c","h"," ","d","e","c","k">>, <<"c","s","v">> >>]
  >>

(* DEFAULT_OS_KEYWORDS of scripts/account_summarizer.py. *)
DEFAULT_OS_KEYWORDS ==
  <<
    [name |-> "Orbit 01 U+00B7 Linux",
     kws |-> <<
       <<"l","i","n","u","x">>, <<"n","i","x","o","s">>, <<"u","b","u","n","t","u">>,
       <<"d","e","b","i","a","n">>, <<"d","o","c","k","e","r">>, <<"p","o","d","m","a","n">>,
       <<"t","a","i","l","s","c","a","l","e">>, <<"w","i","r","e","g","u","a","r","d">>,
       <<"k","u","b","e","r","n","e","t","e","s">>, <<"s","e","l","f","-","h","o","s","t">>,
       <<"g","i","t","o","p","s">> >>],
    [name |-> "Orbit 02 U+00B7 macOS",
     kws |-> <<
       <<"m","a","c","o","s">>, <<"m","a","c">>, <<"l","o","g","i","c"," ","p","r","o">>,
       <<"a","f","f","i","n","i","t","y">>, <<"r","a","y","c","a","s","t">>,
       <<"r","u","n","w","a","y">>,
       <<"s","t","a","b","l","e"," ","d","i","f","f","u","s","i","o","n">>,
       <<"f","i","n","a","l"," ","c","u","t">>, <<"c","r","e","a","t","i","v","e">>,
       <<"p","h","o","t","o","g","r","a","p","h","y">> >>],
    [name |-> "Orbit 03 U+00B7 Windows",
     kws |-> <<
       <<"w","i","n","d","o","w","s">>, <<"e","x","c","e","l">>,
       <<"p","o","w","e","r"," ","b","i">>,
       <<"p","o","w","e","r"," ","a","u","t","o","m","a","t","e">>, <<"v","s","c","o","d","e">>,
       <<"w","s","l","2">>, <<"w","s","l">>, <<"l","e","d","g","e","r">>,
       <<"f","i","n","a","n","c","e">>, <<"c","o","m","p","l","i","a","n","c","e">> >>]
  >>

(***************************************************************************)
(* Characters and strings                                                  *)
(***************************************************************************)
UpperCase ==
  <<"A","B","C","D","E","F","G","H","I","J","K","L","M","N","O","P","Q","R","S","T","U","V","W",
    "X","Y","Z","U+0394">>

LowerCase ==
  <<"a","b","c","d","e","f","g","h","i","j","k","l","m","n","o","p","q","r","s","t","u","v","w",
    "x","y","z","U+03B4">>

Digits == {"0","1","2","3","4","5","6","7","8","9"}

Range(f) == {f[i] : i \in DOMAIN f}

(* str.lower() on one character, and on a string *)
LowerChar(c) ==
  IF \E i \in DOMAIN UpperCase : UpperCase[i] = c
  THEN LowerCase[CHOOSE i \in DOMAIN UpperCase : UpperCase[i] = c]
  ELSE c

lower(text) == [i \in 1..Len(text) |-> LowerChar(text[i])]

(* Python's `kw in s` on strings: kw occurs in s as a contiguous substring *)
Contains(kw, s) ==
  \E i \in 0..(Len(s) - Len(kw)) : SubSeq(s, i + 1, i + Len(kw)) = kw

(* The character class [A-Za-z0-9_+\-/] of the token pattern, after lower() *)
TOKEN_CHARS == {LowerCase[i] : i \in 1..26} \cup Digits \cup {"_", "+", "-", "/"}

(* re.findall(class+, text): the maximal runs of class characters, left to right *)
FindAll(text, class) ==
  LET starts == {i \in 1..Len(text) : text[i] \in class /\ (i = 1 \/ text[i - 1] \notin class)}
      endOf(i) == CHOOSE e \in i..Len(text) :
                    /\ \A k \in i..e : text[k] \in class
                    /\ (e = Len(text) \/ text[e + 1] \notin class)
      nth(n) == CHOOSE i \in starts : Cardinality({j \in starts : j <= i}) = n
  IN [n \in 1..Cardinality(starts) |-> SubSeq(text, nth(n), endOf(nth(n)))]

KeepToken(t) == t \notin STOPWORDS /\ Len(t) > 1

(* tokenize of account_summarizer.py and of account_summarizer_v3.py *)
tokenize(text) == SelectSeq(FindAll(lower(text), TOKEN_CHARS), KeepToken)

(* All orders in which list(a_set) can enumerate a finite set *)
Orders(S) ==
  {f \in [1..Cardinality(S) -> S] : \A j, k \in 1..Cardinality(S) : f[j] = f[k] => j = k}

(***************************************************************************)
(* Theme classification                                                    *)
(***************************************************************************)
GENERAL == "General"

SHARED_ORBIT == "Orbit 00 U+00B7 Shared Systems"

Names(map) == [i \in 1..Len(map) |-> map[i].name]

(* The (lowercased keyword, theme) pairs of a theme map.  The code keeps them in a *)
(* list and reads it only by membership tests, so the model keeps the set.         *)
Flatten(map) ==
  UNION {{<<lower(map[i].kws[j]), map[i].name>> : j \in 1..Len(map[i].kws)} : i \in 1..Len(map)}

KEYWORD_TO_DOMAIN == Flatten(THEMATIC_MAP)

(* build_keyword_index of v3 (which also sorts the list) *)
build_keyword_index(map) == Flatten(map)

HitsFirstOnly(sentence, key_index) ==
  LET s == lower(sentence)
      m == {p \in key_index : Contains(p[1], s)}
  IN IF m = {} THEN {} ELSE {(CHOOSE p \in m : TRUE)[2]}

(* hits = {dom for kw, dom in key_index if kw in s} *)
Hits(sentence, key_index) ==
  LET s == lower(sentence)
  IN {p[2] : p \in {q \in key_index : Contains(q[1], s)}}

(* sentence_domain: every list that `list(hits) if hits else ["General"]` can be *)
sentence_domain(sentence) ==
  LET hits == Hits(sentence, KEYWORD_TO_DOMAIN)
  IN IF hits # {} THEN Orders(hits) ELSE {<<GENERAL>>}

(* sentence_domains of v3: the same over a given keyword index *)
sentence_domains(sentence, key_index) ==
  LET hits == Hits(sentence, key_index)
  IN IF hits # {} THEN Orders(hits) ELSE {<<GENERAL>>}

(* assign_orbits, for one sentence: matched or [shared_label] *)
target_orbits(sentence, keyword_map, shared_label) ==
  LET lowered == lower(sentence)
      hit(i) == \E j \in 1..Len(keyword_map[i].kws) :
                   Contains(lower(keyword_map[i].kws[j]), lowered)
      matched == SelectSeq(Names(keyword_map),
                           LAMBDA o : \E i \in 1..Len(keyword_map) :
                                         keyword_map[i].name = o /\ hit(i))
  IN IF matched # <<>> THEN matched ELSE <<shared_label>>

(***************************************************************************)
(* The sentences the model draws corpora from.  A sentence is named by a    *)
(* number; Text gives its characters.  Each is a string split_sentences     *)
(* returns as one segment (trimmed, capitalised, at least 12 characters).   *)
(***************************************************************************)
BaseText ==
  <<
    (* 1: Kernel boots fast. *)
    <<"K","e","r","n","e","l"," ","b","o","o","t","s"," ","f","a","s","t",".">>,
    (* 2: Kernel boots fast! *)
    <<"K","e","r","n","e","l"," ","b","o","o","t","s"," ","f","a","s","t","!">>,
    (* 3: Kernel boots slow. *)
    <<"K","e","r","n","e","l"," ","b","o","o","t","s"," ","s","l","o","w",".">>,
    (* 4: Rapid science wins. *)
    <<"R","a","p","i","d"," ","s","c","i","e","n","c","e"," ","w","i","n","s",".">>,
    (* 5: It is what it is. *)
    <<"I","t"," ","i","s"," ","w","h","a","t"," ","i","t"," ","i","s",".">>,
    (* 6: Plain words only. *)
    <<"P","l","a","i","n"," ","w","o","r","d","s"," ","o","n","l","y",".">>,
    (* 7: Reef sci caas api forge. *)
    <<"R","e","e","f"," ","s","c","i"," ","c","a","a","s"," ","a","p","i"," ","f","o","r","g","e",".">>,
    (* 8: Docker on WSL hosts. *)
    <<"D","o","c","k","e","r"," ","o","n"," ","W","S","L"," ","h","o","s","t","s",".">>,
    (* 9: Ubuntu boots fast. *)
    <<"U","b","u","n","t","u"," ","b","o","o","t","s"," ","f","a","s","t",".">>,
    (* 10: It is what it is ! *)
    <<"I","t"," ","i","s"," ","w","h","a","t"," ","i","t"," ","i","s"," ","!">>,
    (* 11: Shipped on 2024-03-05. *)
    <<"S","h","i","p","p","e","d"," ","o","n"," ","2","0","2","4","-","0","3","-","0","5",".">>
  >>

(* Filler sentences "<Stem> x<c> y<c>.": stem k carries a keyword of the k-th theme
   of THEMATIC_MAP, the last stem carries none. *)
FillStem ==
  <<
    <<"K","e","r","n","e","l">>,
    <<"R","e","e","f">>,
    <<"I","o","s","c","o">>,
    <<"P","l","a","i","n">>
  >>

FillLetter == <<"a","b","c","d","e","f","g","h","i","j","k","l","m","n","o","p">>

Fill(k, i) == 100 * k + i

FillText(k, i) ==
  FillStem[k] \o <<" ", "x", FillLetter[i], " ", "y", FillLetter[i], ".">>

Text(s) == IF s <= Len(BaseText) THEN BaseText[s] ELSE FillText(s \div 100, s % 100)

BaseIds == 1..Len(BaseText)

FillIds == {Fill(k, i) : k \in 1..Len(FillStem), i \in 1..Len(FillLetter)}

Universe == BaseIds \cup FillIds

(* tokenize(Text(s)) of every sentence of the universe, tabulated once (@@ makes *)
(* TLC build the table instead of keeping the expression).                       *)
TokTable == [s \in Universe |-> tokenize(Text(s))] @@ <<>>

Tokens(s) == TokTable[s]


(***************************************************************************)
(* Input files.  A file is named by its number in FileTable: whether its    *)
(* name ends in .json, what reading it does ("ok", or the exception raised), *)
(* its text, and what json.loads makes of the text (t = "invalid" when it    *)
(* raises JSONDecodeError).  A JSON value is [t |-> its type, v |-> its      *)
(* value]; an object's v lists its [key, value] members in order.            *)
(***************************************************************************)
FileTable ==
  <<
    (* {"messages":[{"content":"Hi there."},{"content":"Bye now."}]} *)
    [json |-> TRUE, status |-> "ok",
     raw |-> <<"{","\"","m","e","s","s","a","g","e","s","\"",":","[","{","\"","c","o","n","t","e","n","t","\"",":","\"","H","i"," ","t","h","e","r","e",".","\"","}",",","{","\"","c","o","n","t","e","n","t","\"",":","\"","B","y","e"," ","n","o","w",".","\"","}","]","}">>,
     parsed |-> [t |-> "dict", v |-> <<[key |-> <<"m","e","s","s","a","g","e","s">>, value |-> [t |-> "list", v |-> <<[t |-> "dict", v |-> <<[key |-> <<"c","o","n","t","e","n","t">>, value |-> [t |-> "str", v |-> <<"H","i"," ","t","h","e","r","e",".">>]]>>], [t |-> "dict", v |-> <<[key |-> <<"c","o","n","t","e","n","t">>, value |-> [t |-> "str", v |-> <<"B","y","e"," ","n","o","w",".">>]]>>]>>]]>>]],
    (* [{"content":"a"},{"content":5}] *)
    [json |-> TRUE, status |-> "ok",
     raw |-> <<"[","{","\"","c","o","n","t","e","n","t","\"",":","\"","a","\"","}",",","{","\"","c","o","n","t","e","n","t","\"",":","5","}","]">>,
     parsed |-> [t |-> "list", v |-> <<[t |-> "dict", v |-> <<[key |-> <<"c","o","n","t","e","n","t">>, value |-> [t |-> "str", v |-> <<"a">>]]>>], [t |-> "dict", v |-> <<[key |-> <<"c","o","n","t","e","n","t">>, value |-> [t |-> "int", v |-> 5]]>>]>>]],
    (* [{"content":"a"},{},{"content":"b"}] *)
    [json |-> TRUE, status |-> "ok",
     raw |-> <<"[","{","\"","c","o","n","t","e","n","t","\"",":","\"","a","\"","}",",","{","}",",","{","\"","c","o","n","t","e","n","t","\"",":","\"","b","\"","}","]">>,
     parsed |-> [t |-> "list", v |-> <<[t |-> "dict", v |-> <<[key |-> <<"c","o","n","t","e","n","t">>, value |-> [t |-> "str", v |-> <<"a">>]]>>], [t |-> "dict", v |-> <<>>], [t |-> "dict", v |-> <<[key |-> <<"c","o","n","t","e","n","t">>, value |-> [t |-> "str", v |-> <<"b">>]]>>]>>]],
    (* ["x",{"content":"a"}] *)
    [json |-> TRUE, status |-> "ok",
     raw |-> <<"[","\"","x","\"",",","{","\"","c","o","n","t","e","n","t","\"",":","\"","a","\"","}","]">>,
     parsed |-> [t |-> "list", v |-> <<[t |-> "str", v |-> <<"x">>], [t |-> "dict", v |-> <<[key |-> <<"c","o","n","t","e","n","t">>, value |-> [t |-> "str", v |-> <<"a">>]]>>]>>]],
    (* [7,null,true,[]] *)
    [json |-> TRUE, status |-> "ok",
     raw |-> <<"[","7",",","n","u","l","l",",","t","r","u","e",",","[","]","]">>,
     parsed |-> [t |-> "list", v |-> <<[t |-> "int", v |-> 7], [t |-> "null", v |-> 0], [t |-> "bool", v |-> TRUE], [t |-> "list", v |-> <<>>]>>]],
    (* {"messages":"abc"} *)
    [json |-> TRUE, status |-> "ok",
     raw |-> <<"{","\"","m","e","s","s","a","g","e","s","\"",":","\"","a","b","c","\"","}">>,
     parsed |-> [t |-> "dict", v |-> <<[key |-> <<"m","e","s","s","a","g","e","s">>, value |-> [t |-> "str", v |-> <<"a","b","c">>]]>>]],
    (* {"messages":5} *)
    [json |-> TRUE, status |-> "ok",
     raw |-> <<"{","\"","m","e","s","s","a","g","e","s","\"",":","5","}">>,
     parsed |-> [t |-> "dict", v |-> <<[key |-> <<"m","e","s","s","a","g","e","s">>, value |-> [t |-> "int", v |-> 5]]>>]],
    (* {"messages":{"content":"a"}} *)
    [json |-> TRUE, status |-> "ok",
     raw |-> <<"{","\"","m","e","s","s","a","g","e","s","\"",":","{","\"","c","o","n","t","e","n","t","\"",":","\"","a","\"","}","}">>,
     parsed |-> [t |-> "dict", v |-> <<[key |-> <<"m","e","s","s","a","g","e","s">>, value |-> [t |-> "dict", v |-> <<[key |-> <<"c","o","n","t","e","n","t">>, value |-> [t |-> "str", v |-> <<"a">>]]>>]]>>]],
    (* {"text":"a"} *)
    [json |-> TRUE, status |-> "ok",
     raw |-> <<"{","\"","t","e","x","t","\"",":","\"","a","\"","}">>,
     parsed |-> [t |-> "dict", v |-> <<[key |-> <<"t","e","x","t">>, value |-> [t |-> "str", v |-> <<"a">>]]>>]],
    (* "hello" *)
    [json |-> TRUE, status |-> "ok",
     raw |-> <<"\"","h","e","l","l","o","\"">>,
     parsed |-> [t |-> "str", v |-> <<"h","e","l","l","o">>]],
    (* 5 *)
    [json |-> TRUE, status |-> "ok",
     raw |-> <<"5">>,
     parsed |-> [t |-> "int", v |-> 5]],
    (* {not json *)
    [json |-> TRUE, status |-> "ok",
     raw |-> <<"{","n","o","t"," ","j","s","o","n">>,
     parsed |-> [t |-> "invalid", v |-> 0]],
    (* {"messages":[]} *)
    [json |-> TRUE, status |-> "ok",
     raw |-> <<"{","\"","m","e","s","s","a","g","e","s","\"",":","[","]","}">>,
     parsed |-> [t |-> "dict", v |-> <<[key |-> <<"m","e","s","s","a","g","e","s">>, value |-> [t |-> "list", v |-> <<>>]]>>]],
    (* [] *)
    [json |-> TRUE, status |-> "ok",
     raw |-> <<"[","]">>,
     parsed |-> [t |-> "list", v |-> <<>>]],
    (* [{"content":"a"},{"content":null}] *)
    [json |-> TRUE, status |-> "ok",
     raw |-> <<"[","{","\"","c","o","n","t","e","n","t","\"",":","\"","a","\"","}",",","{","\"","c","o","n","t","e","n","t","\"",":","n","u","l","l","}","]">>,
     parsed |-> [t |-> "list", v |-> <<[t |-> "dict", v |-> <<[key |-> <<"c","o","n","t","e","n","t">>, value |-> [t |-> "str", v |-> <<"a">>]]>>], [t |-> "dict", v |-> <<[key |-> <<"c","o","n","t","e","n","t">>, value |-> [t |-> "null", v |-> 0]]>>]>>]],
    (* {"messages":[{"content":"a"},"b"],"x":1} *)
    [json |-> TRUE, status |-> "ok",
     raw |-> <<"{","\"","m","e","s","s","a","g","e","s","\"",":","[","{","\"","c","o","n","t","e","n","t","\"",":","\"","a","\"","}",",","\"","b","\"","]",",","\"","x","\"",":","1","}">>,
     parsed |-> [t |-> "dict", v |-> <<[key |-> <<"m","e","s","s","a","g","e","s">>, value |-> [t |-> "list", v |-> <<[t |-> "dict", v |-> <<[key |-> <<"c","o","n","t","e","n","t">>, value |-> [t |-> "str", v |-> <<"a">>]]>>], [t |-> "str", v |-> <<"b">>]>>]], [key |-> <<"x">>, value |-> [t |-> "int", v |-> 1]]>>]],
    (* a .txt file: Kernel boots fast. Plain words only. *)
    [json |-> FALSE, status |-> "ok",
     raw |-> <<"K","e","r","n","e","l"," ","b","o","o","t","s"," ","f","a","s","t","."," ","P","l","a","i","n"," ","w","o","r","d","s"," ","o","n","l","y",".">>,
     parsed |-> [t |-> "invalid", v |-> 0]],
    (* an empty .md file:  *)
    [json |-> FALSE, status |-> "ok",
     raw |-> <<>>,
     parsed |-> [t |-> "invalid", v |-> 0]],
    (* a file that cannot be opened: open / read_text raises OSError *)
    [json |-> FALSE, status |-> "OSError",
     raw |-> <<>>,
     parsed |-> [t |-> "invalid", v |-> 0]],
    (* a file whose bytes are not UTF-8: read raises UnicodeDecodeError *)
    [json |-> FALSE, status |-> "UnicodeDecodeError",
     raw |-> <<>>,
     parsed |-> [t |-> "invalid", v |-> 0]]
  >>

Files == 1..Len(FileTable)

(***************************************************************************)
(* Loading a file                                                          *)
(***************************************************************************)
MESSAGES == <<"m","e","s","s","a","g","e","s">>

CONTENT == <<"c","o","n","t","e","n","t">>

DigitChar == <<"0","1","2","3","4","5","6","7","8","9">>

(* key in d, and d[key], for a JSON object d *)
Has(d, key) == \E k \in DOMAIN d.v : d.v[k].key = key

Member(d, key) == d.v[CHOOSE k \in DOMAIN d.v : d.v[k].key = key].value

JsonStr(chars) == [t |-> "str", v |-> chars]

(* str(n) of an integer *)
RECURSIVE IntStr(_)
IntStr(n) ==
  IF n < 0 THEN <<"-">> \o IntStr(0 - n)
  ELSE IF n < 10 THEN <<DigitChar[n + 1]>>
  ELSE IntStr(n \div 10) \o <<DigitChar[(n % 10) + 1]>>

(* str(x) of a parsed JSON value that is no object (the lists str is applied to *)
(* in the files of FileTable are empty)                                         *)
PyStr(x) ==
  CASE x.t = "str" -> x.v
    [] x.t = "int" -> IntStr(x.v)
    [] x.t = "null" -> <<"N","o","n","e">>
    [] x.t = "bool" -> IF x.v THEN <<"T","r","u","e">> ELSE <<"F","a","l","s","e">>
    [] x.t = "list" /\ x.v = <<>> -> <<"[","]">>

(* "\n".join(lines) *)
RECURSIVE Join(_)
Join(lines) ==
  IF lines = <<>> THEN <<>>
  ELSE IF Len(lines) = 1 THEN lines[1]
  ELSE lines[1] \o <<"\n">> \o Join(Tail(lines))

(* A loader's outcome: the text returned, or raised = TRUE *)
Text_(chars) == [raised |-> FALSE, text |-> chars]

Raised == [raised |-> TRUE, text |-> <<>>]

(* "\n".join(items) on a list of JSON values: TypeError unless all are strings *)
JoinValues(items) ==
  IF \A k \in DOMAIN items : items[k].t = "str"
  THEN Text_(Join([k \in 1..Len(items) |-> items[k].v]))
  ELSE Raised

(* [msg.get("content", "") if isinstance(msg, dict) else str(msg) for msg in messages] *)
ContentOrStr(messages) ==
  [k \in 1..Len(messages) |->
     IF messages[k].t = "dict"
     THEN IF Has(messages[k], CONTENT) THEN Member(messages[k], CONTENT) ELSE JsonStr(<<>>)
     ELSE JsonStr(PyStr(messages[k]))]

(* load_text_from_file of account_summarizer.py: every exception inside the try, *)
(* also the join's TypeError, ends in `return ""`.                                *)
load_text_from_file(file) ==
  LET data == file.parsed
      joined(messages) ==
        IF JoinValues(ContentOrStr(messages)).raised THEN Text_(<<>>)
        ELSE JoinValues(ContentOrStr(messages))
  IN IF file.status # "ok" THEN Text_(<<>>)
     ELSE IF ~file.json THEN Text_(file.raw)
     ELSE IF data.t = "invalid" THEN Text_(file.raw)
     ELSE IF data.t = "dict" /\ Has(data, MESSAGES) /\ Member(data, MESSAGES).t = "list"
          THEN joined(Member(data, MESSAGES).v)
     ELSE IF data.t = "list" THEN joined(data.v)
     ELSE Text_(file.raw)

(* `for m in x`: the elements of a list, the characters of a string, the keys of *)
(* an object; anything else is not iterable (TypeError)                          *)
Iterable(x) == x.t \in {"list", "str", "dict"}

Iterate(x) ==
  CASE x.t = "list" -> x.v
    [] x.t = "str" -> [k \in 1..Len(x.v) |-> JsonStr(<<x.v[k]>>)]
    [] x.t = "dict" -> [k \in 1..Len(x.v) |-> JsonStr(x.v[k].key)]

(* load_text of account_summarizer_v3.py: data["messages"] is iterated whatever *)
(* it is; the bare except turns every exception into "".                        *)
load_text_v3(file) ==
  LET data == file.parsed
      joined(messages) ==
        IF JoinValues(ContentOrStr(messages)).raised THEN Text_(<<>>)
        ELSE JoinValues(ContentOrStr(messages))
  IN IF file.status # "ok" THEN Text_(<<>>)
     ELSE IF ~file.json THEN Text_(file.raw)
     ELSE IF data.t = "invalid" THEN Text_(file.raw)
     ELSE IF data.t = "dict" /\ Has(data, MESSAGES)
          THEN IF Iterable(Member(data, MESSAGES)) THEN joined(Iterate(Member(data, MESSAGES)))
               ELSE Text_(<<>>)
     ELSE IF data.t = "list" THEN joined(data.v)
     ELSE Text_(file.raw)

(* isinstance(x, Sequence): a list, and also a string *)
IsSequence(x) == x.t \in {"list", "str"}

(* _extract_message_content of scripts/account_summarizer.py *)
RECURSIVE _extract_message_content(_)
_extract_message_content(items) ==
  IF items = <<>> THEN <<>>
  ELSE LET item == Head(items)
           out == IF item.t = "dict"
                  THEN IF Has(item, CONTENT) /\ Member(item, CONTENT).t = "str"
                       THEN <<Member(item, CONTENT).v>> ELSE <<>>
                  ELSE <<PyStr(item)>>
       IN out \o _extract_message_content(Tail(items))

(* load_text of scripts/account_summarizer.py: only OSError is caught *)
load_text_orbit(file) ==
  LET parsed == file.parsed
  IN IF file.status = "OSError" THEN Text_(<<>>)
     ELSE IF file.status # "ok" THEN Raised
     ELSE IF ~file.json THEN Text_(file.raw)
     ELSE IF parsed.t = "invalid" THEN Text_(file.raw)
     ELSE IF parsed.t = "dict" /\ Has(parsed, MESSAGES) /\ IsSequence(Member(parsed, MESSAGES))
          THEN Text_(Join(_extract_message_content(Iterate(Member(parsed, MESSAGES)))))
     ELSE IF IsSequence(parsed) THEN Text_(Join(_extract_message_content(Iterate(parsed))))
     ELSE Text_(file.raw)

load(im, file) ==
  CASE im = "root" -> load_text_from_file(file)
    [] im = "v3" -> load_text_v3(file)
    [] im = "orbit" -> load_text_orbit(file)

(***************************************************************************)
(* Sentence segmentation                                                   *)
(***************************************************************************)
(* Characters \s matches and str.strip() strips (those the model's texts use) *)
WHITESPACE == {" ", "\n", "\t", "U+00A0"}

(* [.!?] and [A-Z0-9\[\(] of SENTENCE_SPLIT_RE *)
END_CHARS == {".", "!", "?"}

START_CHARS == {UpperCase[i] : i \in 1..26} \cup Digits \cup {"[", "("}

(* ABBREV of account_summarizer_v3.py *)
ABBREV ==
  {<<"e",".","g",".">>, <<"i",".","e",".">>, <<"e","t","c",".">>, <<"v",".">>,
   <<"v","1",".","1",".","8">>, <<"m","r",".">>, <<"m","r","s",".">>, <<"d","r",".">>,
   <<"p","r","o","f",".">>, <<"i","n","c",".">>, <<"l","t","d",".">>, <<"c","o",".">>}

(* the shortest segment kept: 10, and 12 in scripts/account_summarizer.py *)
MIN_LENGTH == 10

MIN_LENGTH_orbit == 12

(* re.sub(r"\s+", " ", text): every run of whitespace becomes one space *)
RECURSIVE Collapse(_)
Collapse(text) ==
  IF text = <<>> THEN <<>>
  ELSE IF Head(text) \notin WHITESPACE THEN <<Head(text)>> \o Collapse(Tail(text))
  ELSE IF Len(text) > 1 /\ text[2] \in WHITESPACE THEN Collapse(Tail(text))
  ELSE <<" ">> \o Collapse(Tail(text))

(* str.strip() *)
strip(text) ==
  LET inked == {i \in 1..Len(text) : text[i] \notin WHITESPACE}
  IN IF inked = {} THEN <<>>
     ELSE SubSeq(text, CHOOSE i \in inked : \A j \in inked : i <= j,
                       CHOOSE i \in inked : \A j \in inked : i >= j)

(* SENTENCE_SPLIT_RE matches text[i..j]: a whole run of whitespace with one of *)
(* [.!?] right before it and one of [A-Z0-9\[\(] right after it                *)
Boundary(text, i, j) ==
  /\ 1 < i /\ i <= j /\ j < Len(text)
  /\ \A k \in i..j : text[k] \in WHITESPACE
  /\ text[i - 1] \in END_CHARS
  /\ text[j + 1] \in START_CHARS

(* SENTENCE_SPLIT_RE.split(text): the pieces between the matches *)
RECURSIVE Split(_)
Split(text) ==
  LET starts == {i \in 2..(Len(text) - 1) : \E j \in i..(Len(text) - 1) : Boundary(text, i, j)}
  IN IF starts = {} THEN <<text>>
     ELSE LET i == CHOOSE s \in starts : \A o \in starts : s <= o
              j == CHOOSE e \in i..(Len(text) - 1) : Boundary(text, i, e)
          IN <<SubSeq(text, 1, i - 1)>> \o Split(SubSeq(text, j + 1, Len(text)))

(* the segments split_sentences works on: the pieces of the normalised text, *)
(* each stripped; none when the normalised text is empty                      *)
Tentative(text) ==
  LET normalized == strip(Collapse(text))
      pieces == Split(normalized)
  IN IF normalized = <<>> THEN <<>> ELSE [k \in 1..Len(pieces) |-> strip(pieces[k])]

KeepLonger(segment, least) == Len(segment) > least

(* len(sentence) >= 10, len(segment.strip()) >= 12 *)
KeepSegment(segment, least) == Len(segment) >= least

(* A returned sentence: its text, and the numbers of the segments it is made of *)
Sentence(chars, from) == [text |-> chars, segments |-> from]

(* split_sentences of account_summarizer.py (least = 10) and of *)
(* scripts/account_summarizer.py (least = 12)                   *)
split_sentences(text, least) ==
  LET tentative == Tentative(text)
      kept == {k \in DOMAIN tentative : KeepSegment(tentative[k], least)}
      nth(n) == CHOOSE k \in kept : Cardinality({h \in kept : h <= k}) = n
  IN [n \in 1..Cardinality(kept) |-> Sentence(tentative[nth(n)], <<nth(n)>>)]

(* s.split()[-1]: the last run of non-whitespace characters *)
LastToken(s) ==
  LET t == strip(s)
      begins == {i \in 1..Len(t) : \A k \in i..Len(t) : t[k] \notin WHITESPACE}
  IN IF t = <<>> THEN <<>>
     ELSE SubSeq(t, CHOOSE i \in begins : \A j \in begins : i <= j, Len(t))

(* The loop of split_sentences of account_summarizer_v3.py from segment k on *)
RECURSIVE MergeLoop(_, _, _)
MergeLoop(tentative, k, out) ==
  IF k > Len(tentative) THEN out
  ELSE LET s == tentative[k]
           last == out[Len(out)]
       IN IF ~KeepSegment(s, MIN_LENGTH) THEN MergeLoop(tentative, k + 1, out)
          ELSE IF out # <<>> /\ lower(LastToken(last.text)) \in ABBREV
               THEN MergeLoop(tentative, k + 1,
                              [out EXCEPT ![Len(out)] =
                                 Sentence(last.text \o <<" ">> \o s, Append(last.segments, k))])
          ELSE MergeLoop(tentative, k + 1, Append(out, Sentence(s, <<k>>)))

split_sentences_v3(text) == MergeLoop(Tentative(text), 1, <<>>)

split_sentences_of(im, text) ==
  CASE im = "root" -> split_sentences(text, MIN_LENGTH)
    [] im = "orbit" -> split_sentences(text, MIN_LENGTH_orbit)
    [] im = "v3" -> split_sentences_v3(text)

(***************************************************************************)
(* Dates                                                                   *)
(***************************************************************************)
(* \d matches every decimal digit, also outside ASCII (U+0663 is ARABIC-INDIC *)
(* DIGIT THREE); [0-9], [1-9], [12] and [01] match ASCII digits only.         *)
DECIMAL_DIGITS == Digits \cup {"U+0663"}

(* \w: letters, digits and the underscore *)
WORD_CHARS ==
  Range(UpperCase) \cup Range(LowerCase) \cup DECIMAL_DIGITS \cup {"_"}

(* \b at the gap before text[i] *)
WordBoundary(text, i) ==
  LET before == i > 1 /\ text[i - 1] \in WORD_CHARS
      after == i <= Len(text) /\ text[i] \in WORD_CHARS
  IN before # after

(* DATE_PATTERN matches text[i..i+9] *)
DateMatch(text, i) ==
  /\ i >= 1 /\ i + 9 <= Len(text)
  /\ WordBoundary(text, i)
  /\ text[i] = "2" /\ text[i + 1] = "0"
  /\ text[i + 2] \in DECIMAL_DIGITS /\ text[i + 3] \in DECIMAL_DIGITS
  /\ text[i + 4] \in {"-", "/"}
  /\ \/ text[i + 5] = "0" /\ text[i + 6] \in Digits \ {"0"}
     \/ text[i + 5] = "1" /\ text[i + 6] \in {"0", "1", "2"}
  /\ text[i + 7] \in {"-", "/"}
  /\ \/ text[i + 8] = "0" /\ text[i + 9] \in Digits \ {"0"}
     \/ text[i + 8] \in {"1", "2"} /\ text[i + 9] \in DECIMAL_DIGITS
     \/ text[i + 8] = "3" /\ text[i + 9] \in {"0", "1"}
  /\ WordBoundary(text, i + 10)

AsWritten(text, i) == SubSeq(text, i, i + 9)

(* "-".join(match), f"{y}-{m}-{d}": the three groups with hyphens between *)
Hyphenated(text, i) ==
  SubSeq(text, i, i + 3) \o <<"-">> \o SubSeq(text, i + 5, i + 6) \o <<"-">>
    \o SubSeq(text, i + 8, i + 9)

(* DATE_PATTERN.findall(text), left to right (two matches never overlap) *)
RECURSIVE FindDates(_, _)
FindDates(text, i) ==
  IF i + 9 > Len(text) THEN <<>>
  ELSE IF DateMatch(text, i) THEN <<Hyphenated(text, i)>> \o FindDates(text, i + 10)
  ELSE FindDates(text, i + 1)

(* The characters of a date in code point order, for sorted() *)
CharOrder == <<"-", "/", "0", "1", "2", "3", "4", "5", "6", "7", "8", "9", "U+0663">>

Code(c) == CHOOSE k \in DOMAIN CharOrder : CharOrder[k] = c

(* a < b for two strings of the same length *)
StrLess(a, b) ==
  \E k \in DOMAIN a : /\ Code(a[k]) < Code(b[k])
                      /\ \A h \in 1..(k - 1) : a[h] = b[h]

(* sorted(set) of strings *)
RECURSIVE SortedStrings(_)
SortedStrings(S) ==
  IF S = {} THEN <<>>
  ELSE LET least == CHOOSE a \in S : \A b \in S \ {a} : StrLess(a, b)
       IN <<least>> \o SortedStrings(S \ {least})

(* extract_dates of account_summarizer.py: sorted, unique *)
extract_dates(text) == SortedStrings(Range(FindDates(text, 1)))

(* extract_dates of account_summarizer_v3.py: every match, in order *)
extract_dates_v3(text) == FindDates(text, 1)

RECURSIVE Extend(_, _)
Extend(im, texts) ==
  IF texts = <<>> THEN <<>>
  ELSE (IF im = "root" THEN extract_dates(Head(texts)) ELSE extract_dates_v3(Head(texts)))
       \o Extend(im, Tail(texts))

(* build_report: dates.extend(extract_dates(t)) over the texts, sorted(set(dates)); *)
(* account_summarizer.py walks the non-empty texts only                             *)
timeline_dates(im, texts) ==
  SortedStrings(Range(Extend(im, IF im = "root" THEN SelectSeq(texts, LAMBDA t : t # <<>>)
                                 ELSE texts)))
(***************************************************************************)
(* Token statistics and ranking                                            *)
(***************************************************************************)
Max(a, b) == IF a >= b THEN a ELSE b

Min(a, b) == IF a <= b THEN a ELSE b

Prefix(seq, n) == SubSeq(seq, 1, Min(n, Len(seq)))

(* Counter(tokens)[t]: how often t occurs in a token list *)
Count(tokens, t) == Cardinality({k \in DOMAIN tokens : tokens[k] = t})

RECURSIVE Sum(_)
Sum(ints) == IF ints = <<>> THEN 0 ELSE Head(ints) + Sum(Tail(ints))

RECURSIVE Gcd(_, _)
Gcd(a, b) == IF b = 0 THEN a ELSE Gcd(b, a % b)

RECURSIVE LcmUpTo(_)
LcmUpTo(n) == IF n <= 1 THEN 1 ELSE LET l == LcmUpTo(n - 1) IN (l * n) \div Gcd(l, n)

(* list.sort(key=score, reverse=True): descending, equal scores in input order *)
RECURSIVE InsertDescBeforeTies(_, _)
InsertDescBeforeTies(sorted, x) ==
  IF sorted = <<>> THEN <<x>>
  ELSE IF Head(sorted)[2] > x[2]
       THEN <<Head(sorted)>> \o InsertDescBeforeTies(Tail(sorted), x)
  ELSE <<x>> \o sorted

RECURSIVE InsertDesc(_, _)
InsertDesc(sorted, x) ==
  IF sorted = <<>> THEN <<x>>
  ELSE IF Head(sorted)[2] >= x[2] THEN <<Head(sorted)>> \o InsertDesc(Tail(sorted), x)
  ELSE <<x>> \o sorted

RECURSIVE SortDesc(_)
SortDesc(scored) ==
  IF scored = <<>> THEN <<>>
  ELSE InsertDesc(SortDesc(SubSeq(scored, 1, Len(scored) - 1)), scored[Len(scored)])

(* rank_sentences of account_summarizer.py: each sentence scored by the sum, over *)
(* its tokens, of the token's frequency in the whole bucket.  sorted_by_frequency *)
(* is `scored` after the sort (every sentence with 0.0, in input order, when the  *)
(* bucket has no token at all); rank_sentences returns its top_k best.            *)
sorted_by_frequency(sents) ==
  LET freq(t) == Sum([k \in 1..Len(sents) |-> Count(Tokens(sents[k]), t)])
      nofreq == \A k \in DOMAIN sents : Tokens(sents[k]) = <<>>
      score(s) == Sum([j \in 1..Len(Tokens(s)) |-> freq(Tokens(s)[j])])
      scored == [k \in 1..Len(sents) |-> <<sents[k], score(sents[k])>>]
  IN IF nofreq THEN [k \in 1..Len(sents) |-> <<sents[k], 0>>]
     ELSE SortDesc(scored)

rank_sentences(sents, top_k) == Prefix(sorted_by_frequency(sents), top_k)

(* rank_tfidf of account_summarizer_v3.py.  With N sentences in the bucket the   *)
(* score sum(tf[t] * (1 + N / (1 + df[t]))) is kept multiplied by lcm(1..N+1),   *)
(* which makes it an integer; scores are compared within one bucket only.        *)
rank_tfidf(sents) ==
  LET N == Len(sents)
      scale == LcmUpTo(N + 1)
      df(t) == Cardinality({k \in DOMAIN sents : \E j \in DOMAIN Tokens(sents[k]) :
                                                     Tokens(sents[k])[j] = t})
      idf(t) == scale + N * (scale \div (1 + df(t)))
      firstAt(toks, j) == \A h \in 1..(j - 1) : toks[h] # toks[j]
      score(s) == Sum([j \in 1..Len(Tokens(s)) |->
                         IF firstAt(Tokens(s), j)
                         THEN Count(Tokens(s), Tokens(s)[j]) * idf(Tokens(s)[j]) ELSE 0])
      scored == [k \in 1..N |-> <<sents[k], score(sents[k])>>]
  IN IF sents = <<>> THEN <<>> ELSE SortDesc(scored)

(* jaccard of v3 as a fraction [num, den]: 1 when both token sets are empty *)
jaccard(a, b) ==
  LET sa == Range(a)
      sb == Range(b)
  IN IF sa = {} /\ sb = {} THEN [num |-> 1, den |-> 1]
     ELSE [num |-> Cardinality(sa \cap sb), den |-> Max(1, Cardinality(sa \cup sb))]

(* x <= y on fractions with positive denominators *)
FracLeq(x, y) == x.num * y.den <= y.num * x.den


(***************************************************************************)
(* scripts/account_summarizer.py: tokens and ranking                       *)
(***************************************************************************)
(* TOKEN_RE = [A-Za-z0-9_+/.-]+, matched on the text as it is *)
TOKEN_RE_CHARS ==
  {UpperCase[i] : i \in 1..26} \cup {LowerCase[i] : i \in 1..26} \cup Digits
    \cup {"_", "+", "/", ".", "-"}

KeepTokenOrbit(t) == t \notin STOPWORDS_orbit

(* tokenize: the lowercased matches of TOKEN_RE that are not stop-words *)
tokenize_orbit(text) ==
  LET found == FindAll(text, TOKEN_RE_CHARS)
  IN SelectSeq([k \in 1..Len(found) |-> lower(found[k])], KeepTokenOrbit)

TokTableOrbit == [s \in Universe |-> tokenize_orbit(Text(s))] @@ <<>>

TokensOrbit(s) == TokTableOrbit[s]

(* rank_sentences: TF-IDF with idf = 1 + len(sentences) / (1 + df), kept multiplied *)
(* by lcm(1..N+1); a sentence without tokens is left out.                           *)
rank_sentences_orbit(sents) ==
  LET N == Len(sents)
      scale == LcmUpTo(N + 1)
      doc_freq(t) == Cardinality({k \in DOMAIN sents : \E j \in DOMAIN TokensOrbit(sents[k]) :
                                                          TokensOrbit(sents[k])[j] = t})
      idf(t) == scale + N * (scale \div (1 + doc_freq(t)))
      score(s) == Sum([j \in 1..Len(TokensOrbit(s)) |-> idf(TokensOrbit(s)[j])])
      kept == SelectSeq(sents, LAMBDA s : TokensOrbit(s) # <<>>)
      scores == [k \in 1..Len(kept) |-> <<kept[k], score(kept[k])>>]
  IN SortDesc(scores)
(***************************************************************************)
(* Configuration                                                           *)
(***************************************************************************)
(* DEFAULT_THEMATIC_MAP of account_summarizer_v3.py lists the same themes  *)
(* and keywords as THEMATIC_MAP of account_summarizer.py.                  *)
DEFAULT_THEMATIC_MAP == THEMATIC_MAP

(* Theme maps a caller of v3's build_report passes: the default, a --config *)
(* file with the first three themes, and a --config file holding {}.        *)
Map(m) ==
  CASE m = "THEMATIC_MAP" -> THEMATIC_MAP
    [] m = "DEFAULT_THEMATIC_MAP" -> DEFAULT_THEMATIC_MAP
    [] m = "three_themes" -> SubSeq(DEFAULT_THEMATIC_MAP, 1, 3)
    [] m = "no_themes" -> <<>>
    [] m = "DEFAULT_OS_KEYWORDS" -> DEFAULT_OS_KEYWORDS

MapNames == {"THEMATIC_MAP", "DEFAULT_THEMATIC_MAP", "three_themes", "no_themes"}

(* top_k=50 of build_report's calls of rank_sentences *)
TOP_K == 50

(* the executive summary's cap, and the picks per theme *)
EXEC_CAP == 10

EXEC_PICKS == 2

(* the inventory's cap *)
INVENTORY_CAP == 10

(* the iteration guard of balanced_sample *)
LOOP_GUARD == 100000

(* sentence_domain / sentence_domains of every sentence of the universe, computed once *)
DomainLists(m, s) ==
  IF m = "THEMATIC_MAP" THEN sentence_domain(Text(s))
  ELSE sentence_domains(Text(s), build_keyword_index(Map(m)))

DomainListTable == [m \in MapNames |-> [s \in Universe |-> DomainLists(m, s)] @@ <<>>] @@ <<>>

(***************************************************************************)
(* Groups of variables                                                     *)
(***************************************************************************)
inputs == <<impl, thematic_map, sentences, target_sentences, max_per_domain, dedupe_threshold>>

rootvars == <<domain_ranked_copy, index, picked>>

v3vars == <<quota, canonical, canonical_from, pos_d, pos_k>>

outvars == <<executive_summary, canonical_sentences, inventories>>

sizes == <<pool_left, picked_count>>

calls == <<call, ret>>

vars == <<inputs, pc, cur, bucket_keys, domain_buckets, domain_ranked, domain_order,
          rootvars, v3vars, outvars, run, first, sizes, calls>>

Get(dict, key) == IF key \in DOMAIN dict THEN dict[key] ELSE <<>>

Strings(pairs) == [k \in 1..Len(pairs) |-> pairs[k][1]]

(***************************************************************************)
(* Classification into buckets                                             *)
(***************************************************************************)
(* for dom in doms: domain_buckets[dom].append(s), on a defaultdict(list) *)
RECURSIVE AppendToBuckets(_, _, _)
AppendToBuckets(b, doms, s) ==
  IF doms = <<>> THEN b
  ELSE LET dom == Head(doms)
           nb == IF dom \in DOMAIN b.buckets
                 THEN [keys |-> b.keys,
                       buckets |-> [b.buckets EXCEPT ![dom] = Append(@, s)]]
                 ELSE [keys |-> Append(b.keys, dom),
                       buckets |-> [d \in DOMAIN b.buckets \cup {dom} |->
                                      IF d = dom THEN <<s>> ELSE b.buckets[d]]]
       IN AppendToBuckets(nb, Tail(doms), s)

Classify ==
  /\ pc = "classify"
  /\ impl \in {"root", "v3"}
  /\ cur <= Len(sentences)
  /\ \E doms \in DomainListTable[thematic_map][sentences[cur]] :
       LET b == AppendToBuckets([keys |-> bucket_keys, buckets |-> domain_buckets],
                                doms, sentences[cur])
       IN /\ bucket_keys' = b.keys
          /\ domain_buckets' = b.buckets
  /\ cur' = cur + 1
  /\ UNCHANGED <<calls, inputs, pc, domain_ranked, domain_order, rootvars, v3vars, outvars,
                 run, first, sizes>>

(***************************************************************************)
(* Executive summary and inventories                                       *)
(***************************************************************************)
(* The loop over domain_order: up to two picks per theme, left as soon as the *)
(* summary holds 10 entries or more.                                          *)
RECURSIVE ExecLoop(_, _, _, _)
ExecLoop(order, ranked, d, acc) ==
  IF d > Len(order) THEN acc
  ELSE LET picks == Prefix(Strings(Get(ranked, order[d])), EXEC_PICKS)
           next == acc \o [k \in 1..Len(picks) |-> <<order[d], picks[k]>>]
       IN IF Len(next) >= EXEC_CAP THEN next ELSE ExecLoop(order, ranked, d + 1, next)

(* account_summarizer.py: the loop's result as it is *)
executive_summary_root(order, ranked) == ExecLoop(order, ranked, 1, <<>>)

(* account_summarizer_v3.py: the loop's result, then exec_points[:10] *)
exec_points(order, ranked) == Prefix(ExecLoop(order, ranked, 1, <<>>), EXEC_CAP)

InventoryWithRepeats(pool, k, items) ==
  items \o Prefix(SubSeq(Strings(pool), k, Len(pool)), INVENTORY_CAP - Len(items))

(* One theme's inventory: first occurrences in rank order, left at 10 items *)
RECURSIVE InventoryLoop(_, _, _)
InventoryLoop(pool, k, items) ==
  IF k > Len(pool) THEN items
  ELSE LET s == pool[k][1]
           next == IF s \notin Range(items) THEN Append(items, s) ELSE items
       IN IF Len(next) >= INVENTORY_CAP THEN next ELSE InventoryLoop(pool, k + 1, next)

(* the inventories read from the pools balanced_sample has consumed *)
InventoriesOfCopy(order, ranked) ==
  LET items(dom) == InventoryLoop(Get(domain_ranked_copy, dom), 1, <<>>)
  IN [dom \in {d \in Range(order) : items(d) # <<>>} |-> items(dom)]

build_inventories(order, ranked) ==
  LET items(dom) == InventoryLoop(Get(ranked, dom), 1, <<>>)
  IN [dom \in {d \in Range(order) : items(d) # <<>>} |-> items(dom)]

(***************************************************************************)
(* account_summarizer.py: rank, summarise, round-robin sample              *)
(***************************************************************************)
(* domain_order = list(dict.fromkeys(list(THEMATIC_MAP.keys()) + ["General"])) *)
domain_order_root ==
  IF GENERAL \in Range(Names(THEMATIC_MAP)) THEN Names(THEMATIC_MAP)
  ELSE Append(Names(THEMATIC_MAP), GENERAL)

RankRoot ==
  /\ pc = "classify"
  /\ cur > Len(sentences)
  /\ impl = "root"
  /\ domain_ranked' = [d \in DOMAIN domain_buckets |-> rank_sentences(domain_buckets[d], TOP_K)]
  /\ domain_order' = domain_order_root
  /\ executive_summary' = executive_summary_root(domain_order', domain_ranked')
  /\ domain_ranked_copy' = domain_ranked'
  /\ index' = 0
  /\ picked' = <<>>
  /\ pc' = "sample"
  /\ UNCHANGED <<calls, inputs, cur, bucket_keys, domain_buckets, v3vars, canonical_sentences,
                 inventories, run, first, sizes>>

(* while len(picked) < target_n and any(domain_to_ranked.values()): the condition *)
(* reads the number of picked sentences and the lengths of the pools only         *)
LoopContinues(n_picked, target_n, lengths) ==
  /\ n_picked < target_n
  /\ \E d \in DOMAIN lengths : lengths[d] > 0

(* if index > 100_000: break *)
GuardTrips(idx) == idx > LOOP_GUARD

(* balanced_sample's loop condition on the copy build_report hands it *)
LoopCondition ==
  LoopContinues(Len(picked), target_sentences,
                [d \in DOMAIN domain_ranked_copy |-> Len(domain_ranked_copy[d])])

TheFirstDomain(domains, idx) == domains[1]

(* domain = domains[index % len(domains)] *)
DomainAt(domains, idx) == domains[(idx % Len(domains)) + 1]

(* One iteration of balanced_sample's loop; domains is the key list of the copy, *)
(* which has the insertion order of domain_buckets.                               *)
BalancedStep ==
  /\ pc = "sample"
  /\ LoopCondition
  /\ LET domains == bucket_keys
         domain == DomainAt(domains, index)
     IN IF domain_ranked_copy[domain] # <<>>
        THEN /\ picked' = Append(picked, Head(domain_ranked_copy[domain])[1])
             /\ domain_ranked_copy' = [domain_ranked_copy EXCEPT ![domain] = Tail(@)]
        ELSE UNCHANGED <<picked, domain_ranked_copy>>
  /\ index' = index + 1
  /\ pc' = IF GuardTrips(index') THEN "break" ELSE "sample"
  /\ UNCHANGED <<calls, inputs, cur, bucket_keys, domain_buckets, domain_ranked, domain_order,
                 v3vars, outvars, run, first, sizes>>

(* balanced_sample returns picked[:target_n]; build_report goes on to the inventories *)
FinishRoot ==
  /\ \/ pc = "break"
     \/ pc = "sample" /\ ~LoopCondition
  /\ canonical_sentences' = Prefix(picked, target_sentences)
  /\ inventories' = build_inventories(domain_order, domain_ranked)
  /\ pc' = "done"
  /\ UNCHANGED <<calls, inputs, cur, bucket_keys, domain_buckets, domain_ranked, domain_order,
                 rootvars, v3vars, executive_summary, run, first, sizes>>


(***************************************************************************)
(* scripts/account_summarizer.py: assign_orbits                            *)
(***************************************************************************)
(* target_orbits of every sentence of the universe under the default orbits *)
OrbitTable ==
  [s \in Universe |-> target_orbits(Text(s), DEFAULT_OS_KEYWORDS, SHARED_ORBIT)] @@ <<>>

(* One sentence of assign_orbits' loop: buckets[orbit].append(sentence) for *)
(* every orbit of target_orbits                                             *)
AssignOrbits ==
  /\ pc = "classify"
  /\ impl = "orbit"
  /\ cur <= Len(sentences)
  /\ LET b == AppendToBuckets([keys |-> bucket_keys, buckets |-> domain_buckets],
                              OrbitTable[sentences[cur]], sentences[cur])
     IN /\ bucket_keys' = b.keys
        /\ domain_buckets' = b.buckets
  /\ cur' = cur + 1
  /\ pc' = IF cur' > Len(sentences) THEN "assigned" ELSE "classify"
  /\ UNCHANGED <<calls, inputs, domain_ranked, domain_order, rootvars, v3vars, outvars,
                 run, first, sizes>>

(* build_summary after assign_orbits: the orbits in the order of the keyword map, *)
(* the shared label last, and for each the top_k best of rank_sentences; top_k is *)
(* held in max_per_domain.  The pools keep each sentence's score beside it.       *)
ordered_orbits(keyword_map, shared_label) ==
  IF shared_label \in Range(Names(keyword_map)) THEN Names(keyword_map)
  ELSE Append(Names(keyword_map), shared_label)

RankOrbit ==
  /\ impl = "orbit"
  /\ pc \in {"classify", "assigned"}
  /\ cur > Len(sentences)
  /\ domain_order' = ordered_orbits(Map(thematic_map), SHARED_ORBIT)
  /\ domain_ranked' = [orbit \in Range(domain_order') |->
                         Prefix(rank_sentences_orbit(Get(domain_buckets, orbit)),
                                max_per_domain)]
  /\ pc' = "done"
  /\ UNCHANGED <<calls, inputs, cur, bucket_keys, domain_buckets, rootvars, v3vars, outvars,
                 run, first, sizes>>

(***************************************************************************)
(* balanced_sample of account_summarizer.py called on its own, followed on *)
(* the lengths of its pools                                                *)
(***************************************************************************)
(* One iteration of the loop, up to the guard *)
BalancedSampleStep ==
  /\ pc = "loop"
  /\ LoopContinues(picked_count, target_sentences, pool_left)
  /\ LET domains == bucket_keys
         domain == DomainAt(domains, index)
     IN IF pool_left[domain] > 0
        THEN /\ picked_count' = picked_count + 1
             /\ pool_left' = [pool_left EXCEPT ![domain] = @ - 1]
        ELSE UNCHANGED <<picked_count, pool_left>>
  /\ index' = index + 1
  /\ pc' = IF GuardTrips(index') THEN "guard" ELSE "loop"
  /\ UNCHANGED <<calls, inputs, cur, bucket_keys, domain_buckets, domain_ranked, domain_order,
                 domain_ranked_copy, picked, v3vars, outvars, run, first>>

(* return picked[:target_n], of which the model keeps the length *)
BalancedSampleReturn ==
  /\ \/ pc = "guard"
     \/ pc = "loop" /\ ~LoopContinues(picked_count, target_sentences, pool_left)
  /\ picked_count' = Min(picked_count, target_sentences)
  /\ pc' = "returned"
  /\ UNCHANGED <<calls, inputs, cur, bucket_keys, domain_buckets, domain_ranked, domain_order,
                 rootvars, v3vars, outvars, run, first, pool_left>>
(***************************************************************************)
(* account_summarizer_v3.py: rank, quota canon with dedupe, summarise      *)
(***************************************************************************)
(* domain_order = list(thematic_map.keys())                                   *)
(*                + [d for d in sorted(domain_buckets.keys()) if d not in thematic_map] *)
(* The only bucket key that is no theme of the map is "General".              *)
domain_order_v3(map, buckets) ==
  IF GENERAL \in DOMAIN buckets /\ GENERAL \notin Range(Names(map))
  THEN Append(Names(map), GENERAL)
  ELSE Names(map)

(* The loop position at or after (d, k) that names a candidate, or the end *)
RECURSIVE Position(_, _, _, _)
Position(order, ranked, d, k) ==
  IF d > Len(order) THEN <<d, 1>>
  ELSE IF k > Len(Get(ranked, order[d])) THEN Position(order, ranked, d + 1, 1)
  ELSE <<d, k>>

QuotaRoundedUp(target, order) ==
  [d \in Range(order) |-> (target + Len(order) - 1) \div Len(order)]

(* quota = {dom: target_sentences // len(domain_order) for dom in domain_order} *)
Quota(target, order) == [d \in Range(order) |-> target \div Len(order)]

DividedBeforeTheLoop(order) == Len(order) = 0

(* target_sentences // len(domain_order) is evaluated once for every dom in *)
(* domain_order, inside the comprehension; it raises ZeroDivisionError when  *)
(* the divisor is 0                                                          *)
ZeroDivision(order) == \E dom \in Range(order) : Len(order) = 0

RankV3 ==
  /\ pc = "classify"
  /\ cur > Len(sentences)
  /\ impl = "v3"
  /\ domain_ranked' = [d \in DOMAIN domain_buckets |->
                         Prefix(rank_tfidf(domain_buckets[d]), max_per_domain)]
  /\ domain_order' = domain_order_v3(Map(thematic_map), domain_buckets)
  /\ IF ZeroDivision(domain_order')
     THEN /\ pc' = "raised"
          /\ UNCHANGED v3vars
     ELSE /\ quota' = Quota(target_sentences, domain_order')
          /\ canonical' = <<>>
          /\ canonical_from' = <<>>
          /\ pos_d' = Position(domain_order', domain_ranked', 1, 1)[1]
          /\ pos_k' = Position(domain_order', domain_ranked', 1, 1)[2]
          /\ pc' = "canon"
  /\ UNCHANGED <<calls, inputs, cur, bucket_keys, domain_buckets, rootvars, outvars, run, first, sizes>>

(* canonical_tokens: tokenize(s) of every accepted sentence, in order *)
canonical_tokens == [k \in 1..Len(canonical) |-> Tokens(canonical[k])]

(* max([jaccard(toks, t) for t in canonical_tokens] or [0.0]) *)
MaxSimilarity(toks, accepted) ==
  IF accepted = <<>> THEN [num |-> 0, den |-> 1]
  ELSE LET sims == {jaccard(toks, accepted[k]) : k \in 1..Len(accepted)}
       IN CHOOSE x \in sims : \A y \in sims : FracLeq(y, x)

AcceptIgnoringQuota(toks, sim, left) ==
  toks # <<>> /\ FracLeq(sim, dedupe_threshold)

AcceptIgnoringSimilarity(toks, sim, left) ==
  toks # <<>> /\ left > 0

(* if not toks: continue;  if sim <= dedupe_threshold and quota[dom] > 0: accept *)
Accept(toks, sim, left) ==
  toks # <<>> /\ FracLeq(sim, dedupe_threshold) /\ left > 0

(* One candidate of the quota loop *)
CanonStep ==
  /\ pc = "canon"
  /\ pos_d <= Len(domain_order)
  /\ LET dom == domain_order[pos_d]
         s == Get(domain_ranked, dom)[pos_k][1]
         toks == Tokens(s)
         sim == MaxSimilarity(toks, canonical_tokens)
         next == Position(domain_order, domain_ranked, pos_d, pos_k + 1)
     IN /\ IF Accept(toks, sim, quota[dom])
           THEN /\ canonical' = Append(canonical, s)
                /\ canonical_from' = Append(canonical_from, dom)
                /\ quota' = [quota EXCEPT ![dom] = @ - 1]
           ELSE UNCHANGED <<canonical, canonical_from, quota>>
        /\ pos_d' = next[1]
        /\ pos_k' = next[2]
  /\ UNCHANGED <<calls, inputs, pc, cur, bucket_keys, domain_buckets, domain_ranked, domain_order,
                 rootvars, outvars, run, first, sizes>>

(* After the quota loop: the executive summary, the inventories, the Report *)
FinishV3 ==
  /\ pc = "canon"
  /\ pos_d > Len(domain_order)
  /\ executive_summary' = exec_points(domain_order, domain_ranked)
  /\ inventories' = build_inventories(domain_order, domain_ranked)
  /\ canonical_sentences' = Prefix(canonical, target_sentences)
  /\ pc' = "done"
  /\ UNCHANGED <<calls, inputs, cur, bucket_keys, domain_buckets, domain_ranked, domain_order,
                 rootvars, v3vars, run, first, sizes>>

(***************************************************************************)
(* A second call of build_report on the same input                         *)
(***************************************************************************)
Rerun ==
  /\ pc = "done"
  /\ run = 1
  /\ first' = [sentences |-> sentences,
               ranked |-> domain_ranked,
               executive_summary |-> executive_summary,
               canonical |-> canonical_sentences,
               inventories |-> inventories]
  /\ run' = 2
  /\ pc' = "classify"
  /\ cur' = 1
  /\ bucket_keys' = <<>>
  /\ domain_buckets' = <<>>
  /\ domain_ranked' = <<>>
  /\ domain_order' = <<>>
  /\ executive_summary' = <<>>
  /\ domain_ranked_copy' = <<>>
  /\ index' = 0
  /\ picked' = <<>>
  /\ quota' = <<>>
  /\ canonical' = <<>>
  /\ canonical_from' = <<>>
  /\ pos_d' = 1
  /\ pos_k' = 1
  /\ canonical_sentences' = <<>>
  /\ inventories' = <<>>
  /\ UNCHANGED <<calls, inputs, sizes>>

(***************************************************************************)
(* Inputs and specifications                                               *)
(***************************************************************************)
(* the longest corpus drawn from the base sentences *)
MaxCorpus == 3

RECURSIVE SeqsUpTo(_, _)
SeqsUpTo(S, n) ==
  IF n = 0 THEN {<<>>}
  ELSE LET shorter == SeqsUpTo(S, n - 1)
       IN shorter \cup {Append(q, x) : q \in {r \in shorter : Len(r) = n - 1}, x \in S}

Thresholds == {[num |-> 0, den |-> 1], [num |-> 1, den |-> 2], [num |-> 7, den |-> 10],
               [num |-> 1, den |-> 1]}

Start(given) ==
  /\ impl = given.impl
  /\ thematic_map = given.thematic_map
  /\ sentences = given.sentences
  /\ target_sentences = given.target_sentences
  /\ max_per_domain = given.max_per_domain
  /\ dedupe_threshold = given.dedupe_threshold
  /\ pc = "classify"
  /\ cur = 1
  /\ bucket_keys = <<>>
  /\ domain_buckets = <<>>
  /\ domain_ranked = <<>>
  /\ domain_order = <<>>
  /\ executive_summary = <<>>
  /\ domain_ranked_copy = <<>>
  /\ index = 0
  /\ picked = <<>>
  /\ quota = <<>>
  /\ canonical = <<>>
  /\ canonical_from = <<>>
  /\ pos_d = 1
  /\ pos_k = 1
  /\ canonical_sentences = <<>>
  /\ inventories = <<>>
  /\ run = 1
  /\ first = <<>>
  /\ pool_left = <<>>
  /\ picked_count = 0
  /\ call = [fn |-> "build_report"]
  /\ ret = <<>>

Input(im, map, sents, target, maxper, thr) ==
  [impl |-> im, thematic_map |-> map, sentences |-> sents, target_sentences |-> target,
   max_per_domain |-> maxper, dedupe_threshold |-> thr]

(* build_report of account_summarizer.py takes the corpus and the target only *)
RootInput(sents, target) ==
  Input("root", "THEMATIC_MAP", sents, target, TOP_K, [num |-> 7, den |-> 10])

(* Corpora over the base sentences 1..6 *)
Corpora == SeqsUpTo(1..6, MaxCorpus)

Init ==
  \/ \E c \in Corpora, t \in {0, 1, 2, 100} : Start(RootInput(c, t))
  \/ \E m \in {"DEFAULT_THEMATIC_MAP", "three_themes", "no_themes"},
        c \in Corpora, t \in {0, 4, 10, 100}, thr \in Thresholds :
       Start(Input("v3", m, c, t, 50, thr))

Next ==
  \/ Classify
  \/ RankRoot
  \/ BalancedStep
  \/ FinishRoot
  \/ RankV3
  \/ CanonStep
  \/ FinishV3

Spec == Init /\ [][Next]_vars


(***************************************************************************)
(* Corpora that fill the pools: n filler sentences per theme               *)
(***************************************************************************)
(* the most filler sentences of one theme in a scenario corpus *)
MaxFill == 3

(* the most distinct filler sentences of the theme an inventory corpus fills *)
MaxPool == 11

Fillers(k, n) == [j \in 1..n |-> Fill(k, j)]

(* three_themes plus General, target 10: 0..MaxFill sentences for each of the four *)
ScenarioCorpora ==
  {Fillers(1, a) \o Fillers(2, b) \o Fillers(3, c) \o Fillers(4, d) :
     a \in 0..MaxFill, b \in 0..MaxFill, c \in 0..MaxFill, d \in 0..MaxFill}

ScenarioStart ==
  \E c \in ScenarioCorpora, thr \in {[num |-> 1, den |-> 2], [num |-> 7, den |-> 10]} :
    Start(Input("v3", "three_themes", c, 10, 50, thr))

(* Corpora over a one-theme sentence and a sentence of five themes *)
ExecStart ==
  \E c \in SeqsUpTo({1, 7}, MaxCorpus) :
    \/ Start(RootInput(c, 2))
    \/ Start(Input("v3", "DEFAULT_THEMATIC_MAP", c, 100, 50, [num |-> 7, den |-> 10]))

(* One theme with up to MaxPool distinct sentences, some of them repeated *)
InventoryCorpora ==
  {Fillers(1, n) \o extra :
     n \in 0..MaxPool,
     extra \in {<<>>, <<Fill(1, 1)>>, <<Fill(1, 2), Fill(1, 2)>>, <<6>>}}

InventoryStart ==
  \E c \in InventoryCorpora :
    \/ Start(RootInput(c, 100))
    \/ Start(Input("v3", "DEFAULT_THEMATIC_MAP", c, 100, 50, [num |-> 7, den |-> 10]))

InitPools == ScenarioStart \/ ExecStart \/ InventoryStart

SpecPools == InitPools /\ [][Next]_vars

(***************************************************************************)
(* The same input processed twice                                          *)
(***************************************************************************)
TwiceCorpora == SeqsUpTo({4, Fill(3, 1)}, MaxCorpus)

InitTwice ==
  \E c \in TwiceCorpora :
    \/ \E t \in {1, 2} : Start(RootInput(c, t))
    \/ Start(Input("v3", "DEFAULT_THEMATIC_MAP", c, 100, 50, [num |-> 7, den |-> 10]))

NextTwice == Next \/ Rerun

SpecTwice == InitTwice /\ [][NextTwice]_vars

(***************************************************************************)
(* Classification alone, by the three classifiers                          *)
(***************************************************************************)
ClassifyCorpora == SeqsUpTo({1, 4, 5, 8, 9}, MaxCorpus)

InitClassify ==
  \E c \in ClassifyCorpora :
    \/ Start(RootInput(c, 100))
    \/ \E m \in {"DEFAULT_THEMATIC_MAP", "three_themes", "no_themes"} :
         Start(Input("v3", m, c, 100, 50, [num |-> 7, den |-> 10]))
    \/ Start(Input("orbit", "DEFAULT_OS_KEYWORDS", c, 100, 50, [num |-> 7, den |-> 10]))

NextClassify == Classify \/ AssignOrbits

SpecClassify == InitClassify /\ [][NextClassify]_vars

(***************************************************************************)
(* balanced_sample on pools of given lengths                               *)
(***************************************************************************)
(* the longest pool of the small mappings *)
MaxPoolLen == 2

SampleDomains == SubSeq(domain_order_root, 1, 3)

(* Mappings of up to three themes to short pools, and one theme with a pool *)
(* about as long as the loop guard                                          *)
SampleInputs ==
  {[domains |-> SubSeq(SampleDomains, 1, n), lengths |-> f, target_n |-> t] :
     n \in {0}, f \in {<<>>}, t \in 0..1}
  \cup UNION {{[domains |-> SubSeq(SampleDomains, 1, n), lengths |-> f, target_n |-> t] :
                 f \in [Range(SubSeq(SampleDomains, 1, n)) -> 0..MaxPoolLen],
                 t \in 0..(3 * MaxPoolLen + 1)} : n \in 1..3}
  \cup {[domains |-> SubSeq(SampleDomains, 1, 1),
         lengths |-> [d \in {SampleDomains[1]} |-> LOOP_GUARD + extra],
         target_n |-> LOOP_GUARD + extra] : extra \in 0..2}

StartSample(given) ==
  /\ impl = "root"
  /\ thematic_map = "THEMATIC_MAP"
  /\ sentences = <<>>
  /\ target_sentences = given.target_n
  /\ max_per_domain = TOP_K
  /\ dedupe_threshold = [num |-> 7, den |-> 10]
  /\ pc = "loop"
  /\ cur = 1
  /\ bucket_keys = given.domains
  /\ domain_buckets = <<>>
  /\ domain_ranked = <<>>
  /\ domain_order = <<>>
  /\ executive_summary = <<>>
  /\ domain_ranked_copy = <<>>
  /\ index = 0
  /\ picked = <<>>
  /\ quota = <<>>
  /\ canonical = <<>>
  /\ canonical_from = <<>>
  /\ pos_d = 1
  /\ pos_k = 1
  /\ canonical_sentences = <<>>
  /\ inventories = <<>>
  /\ run = 1
  /\ first = <<>>
  /\ pool_left = given.lengths
  /\ picked_count = 0
  /\ call = [fn |-> "balanced_sample"]
  /\ ret = <<>>

InitSample == \E given \in SampleInputs : StartSample(given)

NextSample == BalancedSampleStep \/ BalancedSampleReturn

SpecSample == InitSample /\ [][NextSample]_vars

(***************************************************************************)
(* The two TF-IDF pipelines on corpora with sentences that have no tokens  *)
(***************************************************************************)
TfIdfCorpora == SeqsUpTo({5, 6, 8, 10}, MaxCorpus)

InitTfIdf ==
  \E c \in TfIdfCorpora, top \in {1, 5} :
    \/ Start(Input("v3", "DEFAULT_THEMATIC_MAP", c, 100, 50, [num |-> 7, den |-> 10]))
    \/ Start(Input("orbit", "DEFAULT_OS_KEYWORDS", c, 100, top, [num |-> 7, den |-> 10]))

NextTfIdf ==
  \/ Classify
  \/ RankV3
  \/ CanonStep
  \/ FinishV3
  \/ AssignOrbits
  \/ RankOrbit

SpecTfIdf == InitTfIdf /\ [][NextTfIdf]_vars

(***************************************************************************)
(* Functions called on their own: call holds the function and its          *)
(* arguments, ret what it returned once pc = "returned"                    *)
(***************************************************************************)
StartCall(given) ==
  /\ impl = given.impl
  /\ thematic_map = "DEFAULT_THEMATIC_MAP"
  /\ sentences = <<>>
  /\ target_sentences = 100
  /\ max_per_domain = TOP_K
  /\ dedupe_threshold = [num |-> 7, den |-> 10]
  /\ pc = "call"
  /\ cur = 1
  /\ bucket_keys = <<>>
  /\ domain_buckets = <<>>
  /\ domain_ranked = <<>>
  /\ domain_order = <<>>
  /\ executive_summary = <<>>
  /\ domain_ranked_copy = <<>>
  /\ index = 0
  /\ picked = <<>>
  /\ quota = <<>>
  /\ canonical = <<>>
  /\ canonical_from = <<>>
  /\ pos_d = 1
  /\ pos_k = 1
  /\ canonical_sentences = <<>>
  /\ inventories = <<>>
  /\ run = 1
  /\ first = <<>>
  /\ pool_left = <<>>
  /\ picked_count = 0
  /\ call = given
  /\ ret = <<>>

(* What a call leaves alone: everything but pc and ret *)
Returns(value) ==
  /\ pc' = "returned"
  /\ ret' = value
  /\ UNCHANGED <<call, inputs, cur, bucket_keys, domain_buckets, domain_ranked, domain_order,
                 rootvars, v3vars, outvars, run, first, sizes>>

(***************************************************************************)
(* The rankers: one theme's bucket ranked and cut to the ceiling           *)
(***************************************************************************)
(* the longest bucket ranked *)
MaxBucket == 3

(* The ranker's sorted list of (sentence, score) for one bucket *)
sorted_scores(im, sents) ==
  CASE im = "root" -> sorted_by_frequency(sents)
    [] im = "v3" -> rank_tfidf(sents)
    [] im = "orbit" -> rank_sentences_orbit(sents)

(* rank_sentences(domain_sentences, top_k=...) of account_summarizer.py,         *)
(* rank_tfidf(sents)[:max_per_domain] of account_summarizer_v3.py and            *)
(* rank_sentences(items)[:top_k] of scripts/account_summarizer.py: ret holds the *)
(* sorted list and the pool kept of it.                                          *)
RankBucket ==
  /\ pc = "call"
  /\ call.fn = "rank"
  /\ LET scored == sorted_scores(call.impl, call.sentences)
     IN Returns([scored |-> scored, pool |-> Prefix(scored, call.top_k)])

InitRank ==
  \E im \in {"root", "v3", "orbit"}, c \in SeqsUpTo({1, 2, 3, 5, 6, 10}, MaxBucket),
     k \in 0..MaxBucket :
    StartCall([fn |-> "rank", impl |-> im, sentences |-> c, top_k |-> k])

NextRank == RankBucket

SpecRank == InitRank /\ [][NextRank]_vars

(***************************************************************************)
(* The loading loops of build_report / build_summary: one file after the   *)
(* other; ret holds the texts loaded so far                                *)
(***************************************************************************)
(* the most files in the input directory *)
MaxFiles == 2

(* load_text(path) of the next file; an exception the loader lets through ends *)
(* the run                                                                     *)
LoadFile ==
  /\ pc = "call"
  /\ call.fn = "load"
  /\ Len(ret) < Len(call.files)
  /\ LET loaded == load(call.impl, FileTable[call.files[Len(ret) + 1]])
     IN IF loaded.raised
        THEN /\ pc' = "raised"
             /\ ret' = ret
        ELSE /\ pc' = "call"
             /\ ret' = Append(ret, loaded.text)
  /\ UNCHANGED <<call, inputs, cur, bucket_keys, domain_buckets, domain_ranked, domain_order,
                 rootvars, v3vars, outvars, run, first, sizes>>

(* every file is loaded *)
LoadDone ==
  /\ pc = "call"
  /\ call.fn = "load"
  /\ Len(ret) = Len(call.files)
  /\ Returns(ret)

InitLoad ==
  \E im \in {"root", "v3", "orbit"}, fs \in SeqsUpTo(Files, MaxFiles) :
    StartCall([fn |-> "load", impl |-> im, files |-> fs])

NextLoad == LoadFile \/ LoadDone

SpecLoad == InitLoad /\ [][NextLoad]_vars

(***************************************************************************)
(* main of scripts/account_summarizer.py (--keywords) and of              *)
(* scripts/account_summarizer_v3.py (--config)                             *)
(***************************************************************************)
(* Keyword files: whether the path exists, and what json.load makes of it *)
ConfigTable ==
  <<
    (* {"A":["kernel"]} *)
    [exists |-> TRUE,
     parsed |-> [t |-> "dict", v |-> <<[key |-> <<"A">>,
                  value |-> [t |-> "list", v |-> <<JsonStr(<<"k","e","r","n","e","l">>)>>]]>>]],
    (* {} *)
    [exists |-> TRUE, parsed |-> [t |-> "dict", v |-> <<>>]],
    (* [1,2] *)
    [exists |-> TRUE, parsed |-> [t |-> "list", v |-> <<[t |-> "int", v |-> 1], [t |-> "int", v |-> 2]>>]],
    (* [] *)
    [exists |-> TRUE, parsed |-> [t |-> "list", v |-> <<>>]],
    (* "abc" *)
    [exists |-> TRUE, parsed |-> JsonStr(<<"a","b","c">>)],
    (* 5 *)
    [exists |-> TRUE, parsed |-> [t |-> "int", v |-> 5]],
    (* null *)
    [exists |-> TRUE, parsed |-> [t |-> "null", v |-> 0]],
    (* true *)
    [exists |-> TRUE, parsed |-> [t |-> "bool", v |-> TRUE]],
    (* {bad *)
    [exists |-> TRUE, parsed |-> [t |-> "invalid", v |-> 0]],
    (* {"A":5} *)
    [exists |-> TRUE,
     parsed |-> [t |-> "dict", v |-> <<[key |-> <<"A">>, value |-> [t |-> "int", v |-> 5]]>>]],
    (* {"A":"kernel"} *)
    [exists |-> TRUE,
     parsed |-> [t |-> "dict", v |-> <<[key |-> <<"A">>,
                  value |-> JsonStr(<<"k","e","r","n","e","l">>)]>>]],
    (* a path that does not exist *)
    [exists |-> FALSE, parsed |-> [t |-> "invalid", v |-> 0]]
  >>

(* the built-in map: DEFAULT_OS_KEYWORDS, DEFAULT_THEMATIC_MAP *)
DefaultKeywords == [t |-> "default", v |-> 0]

(* main of scripts/account_summarizer.py up to the call of build_summary: a    *)
(* missing file, invalid JSON and a value that is no Mapping raise SystemExit. *)
(* call.config = 0 when --keywords is not given.                               *)
main_orbit ==
  /\ pc = "call"
  /\ call.fn = "main"
  /\ call.impl = "orbit"
  /\ IF call.config = 0
     THEN pc' = "build" /\ ret' = DefaultKeywords
     ELSE IF ~ConfigTable[call.config].exists
             \/ ConfigTable[call.config].parsed.t # "dict"
          THEN pc' = "SystemExit" /\ ret' = ret
          ELSE pc' = "build" /\ ret' = ConfigTable[call.config].parsed
  /\ UNCHANGED <<call, inputs, cur, bucket_keys, domain_buckets, domain_ranked, domain_order,
                 rootvars, v3vars, outvars, run, first, sizes>>

(* main of scripts/account_summarizer_v3.py up to the call of build_report: the *)
(* default map unless the file exists and json.load returns, whatever it returns *)
main_v3 ==
  /\ pc = "call"
  /\ call.fn = "main"
  /\ call.impl = "v3"
  /\ pc' = "build"
  /\ ret' = IF call.config # 0 /\ ConfigTable[call.config].exists
               /\ ConfigTable[call.config].parsed.t # "invalid"
            THEN ConfigTable[call.config].parsed
            ELSE DefaultKeywords
  /\ UNCHANGED <<call, inputs, cur, bucket_keys, domain_buckets, domain_ranked, domain_order,
                 rootvars, v3vars, outvars, run, first, sizes>>

(* kw.lower() for kw in keywords, for each member of the map: the keywords must *)
(* be iterable and each of them a string                                        *)
KeywordsUsable(map) ==
  \A k \in DOMAIN map.v :
    /\ Iterable(map.v[k].value)
    /\ \A j \in DOMAIN Iterate(map.v[k].value) : Iterate(map.v[k].value)[j].t = "str"

(* build_summary / build_report up to the first use of the map: the files are  *)
(* loaded, then thematic_map.items() (build_keyword_index) or                  *)
(* keyword_map.items() (assign_orbits) is walked.                              *)
UseKeywords ==
  /\ pc = "build"
  /\ call.fn = "main"
  /\ pc' = IF \E k \in DOMAIN call.files : load(call.impl, FileTable[call.files[k]]).raised
           THEN "raised"
           ELSE IF ret.t = "default" THEN "indexed"
           ELSE IF ret.t # "dict" THEN "raised"
           ELSE IF KeywordsUsable(ret) THEN "indexed" ELSE "raised"
  /\ UNCHANGED <<ret, call, inputs, cur, bucket_keys, domain_buckets, domain_ranked,
                 domain_order, rootvars, v3vars, outvars, run, first, sizes>>

InitMain ==
  \E im \in {"v3", "orbit"}, c \in 0..Len(ConfigTable), fs \in SeqsUpTo(Files, 1) :
    StartCall([fn |-> "main", impl |-> im, config |-> c, files |-> fs])

NextMain == main_orbit \/ main_v3 \/ UseKeywords

SpecMain == InitMain /\ [][NextMain]_vars

(***************************************************************************)
(* tokenize called on a text                                               *)
(***************************************************************************)
(* the most words in a tokenized text *)
MaxWords == 2

Words ==
  <<
    <<"L","i","c","e","n","s","e","-","g","a","t","e">>,
    <<"K","e","r","n","e","l">>,
    <<"T","h","e">>,
    <<"i","s",".">>,
    <<"B">>,
    <<"x">>,
    <<"a">>,
    <<"7">>,
    <<"I","/","O">>,
    <<"C","+","+">>,
    <<"v","1",".","2">>,
    <<"_">>,
    <<"-">>,
    <<"(","o","k",")">>,
    <<"U+0394","t">>,
    <<",">>
  >>

(* Texts of up to MaxWords words, a space or nothing between two words *)
RECURSIVE WordTexts(_)
WordTexts(n) ==
  IF n = 0 THEN {<<>>}
  ELSE WordTexts(n - 1)
       \cup {Words[w] : w \in DOMAIN Words}
       \cup {t \o sep \o Words[w] : t \in WordTexts(n - 1) \ {<<>>}, sep \in {<<" ">>, <<>>},
                                     w \in DOMAIN Words}

tokenize_of(im, text) == IF im = "orbit" THEN tokenize_orbit(text) ELSE tokenize(text)

(* tokenize(text) of the three files *)
Tokenize ==
  /\ pc = "call"
  /\ call.fn = "tokenize"
  /\ Returns(tokenize_of(call.impl, call.text))

InitTokenize ==
  \E im \in {"root", "v3", "orbit"}, t \in WordTexts(MaxWords) :
    StartCall([fn |-> "tokenize", impl |-> im, text |-> t])

NextTokenize == Tokenize

SpecTokenize == InitTokenize /\ [][NextTokenize]_vars

(***************************************************************************)
(* split_sentences called on a text                                        *)
(***************************************************************************)
(* the most fragments in a text *)
MaxFragments == 3

Fragments ==
  <<
    (* See Dr. *)
    <<"S","e","e"," ","D","r",".">>,
    (* Please ask Dr. *)
    <<"P","l","e","a","s","e"," ","a","s","k"," ","D","r",".">>,
    (* No. *)
    <<"N","o",".">>,
    (* Then we leave now. *)
    <<"T","h","e","n"," ","w","e"," ","l","e","a","v","e"," ","n","o","w",".">>,
    (* it works fine. *)
    <<"i","t"," ","w","o","r","k","s"," ","f","i","n","e",".">>,
    (* Ten chars. *)
    <<"T","e","n"," ","c","h","a","r","s",".">>,
    (* Eleven chs! *)
    <<"E","l","e","v","e","n"," ","c","h","s","!">>,
    (* Twelve char? *)
    <<"T","w","e","l","v","e"," ","c","h","a","r","?">>,
    (* (See  the\nnotes) *)
    <<"(","S","e","e"," "," ","t","h","e","\n","n","o","t","e","s",")">>,
    (* 9 of us use tools, e.g. *)
    <<"9"," ","o","f"," ","u","s"," ","u","s","e"," ","t","o","o","l","s",","," ","e",".","g",".">>
  >>

(* Texts of up to MaxFragments fragments with a space between two of them, and *)
(* texts of whitespace only                                                     *)
RECURSIVE FragmentTexts(_)
FragmentTexts(n) ==
  IF n = 0 THEN {<<>>, <<" ">>, <<"\n", "\t">>, <<" ", "U+00A0", " ">>}
  ELSE FragmentTexts(n - 1)
       \cup {Fragments[f] : f \in DOMAIN Fragments}
       \cup {t \o <<" ">> \o Fragments[f] :
               t \in FragmentTexts(n - 1) \ FragmentTexts(0), f \in DOMAIN Fragments}
       \cup {<<"\n">> \o Fragments[f] \o <<" ", "\n">> : f \in DOMAIN Fragments}

(* split_sentences(text) of the three files *)
SplitSentences ==
  /\ pc = "call"
  /\ call.fn = "split_sentences"
  /\ Returns(split_sentences_of(call.impl, call.text))

InitSplit ==
  \E im \in {"root", "v3", "orbit"}, t \in FragmentTexts(MaxFragments) :
    StartCall([fn |-> "split_sentences", impl |-> im, text |-> t])

NextSplit == SplitSentences

SpecSplit == InitSplit /\ [][NextSplit]_vars

(***************************************************************************)
(* The date timeline of build_report over the texts of the files           *)
(***************************************************************************)
(* the most files that hold a date *)
MaxTexts == 2

DateFragments ==
  <<
    (* Launched on 2024-03-05 and revised 2024/13/40 *)
    <<"L","a","u","n","c","h","e","d"," ","o","n"," ","2","0","2","4","-","0","3","-","0","5"," ",
      "a","n","d"," ","r","e","v","i","s","e","d"," ","2","0","2","4","/","1","3","/","4","0">>,
    <<"2","0","2","4","-","0","3","-","0","5">>,
    <<"2","0","2","4","/","0","3","/","0","5">>,
    <<"2","0","2","4","-","0","3","/","3","1">>,
    <<"2","0","2","4","/","1","3","/","4","0">>,
    <<"2","0","2","4","-","0","3","-","3","2">>,
    <<"2","0","2","4","-","0","0","-","1","0">>,
    <<"2","0","9","9","-","1","2","-","3","1">>,
    <<"2","0","0","0","-","0","1","-","0","1">>,
    <<"1","9","9","9","-","0","1","-","0","1">>,
    <<"2","0","2","4","-","0","2","-","3","0","t","h">>,
    <<"x","2","0","2","4","-","0","3","-","0","5">>,
    <<"2","0","2","4","-","3","-","5">>,
    <<"2","0","U+0663","4","-","0","3","-","1","U+0663">>,
    <<>>
  >>

(* One file with two fragments, or up to MaxTexts files with one fragment each *)
DateCorpora ==
  {<<DateFragments[a] \o sep \o DateFragments[b]>> :
     a \in DOMAIN DateFragments, b \in DOMAIN DateFragments, sep \in {<<" ">>, <<>>, <<"-">>}}
  \cup {[k \in 1..Len(fs) |-> DateFragments[fs[k]]] : fs \in SeqsUpTo(DOMAIN DateFragments, MaxTexts)}

Timeline ==
  /\ pc = "call"
  /\ call.fn = "timeline"
  /\ Returns(timeline_dates(call.impl, call.texts))

InitTimeline ==
  \E im \in {"root", "v3"}, c \in DateCorpora :
    StartCall([fn |-> "timeline", impl |-> im, texts |-> c])

NextTimeline == Timeline

SpecTimeline == InitTimeline /\ [][NextTimeline]_vars

(***************************************************************************)
(* build_report from the input directory to the Report                     *)
(***************************************************************************)
(* the most files in the input directory of a whole run *)
MaxDir == 2

TextFile(chars) ==
  [json |-> FALSE, status |-> "ok", raw |-> chars, parsed |-> [t |-> "invalid", v |-> 0]]

(* The files a directory is drawn from: whether iter_files accepts the name, *)
(* and the file                                                               *)
DirTable ==
  <<
    (* empty.md *)
    [supported |-> TRUE, file |-> FileTable[18]],
    (* chat.json: {"messages":[]} *)
    [supported |-> TRUE, file |-> FileTable[13]],
    (* locked.txt, which cannot be opened *)
    [supported |-> TRUE, file |-> FileTable[19]],
    (* latin1.txt, which is not UTF-8 *)
    [supported |-> TRUE, file |-> FileTable[20]],
    (* notes.bin: Kernel boots fast. *)
    [supported |-> FALSE, file |-> TextFile(Text(1))],
    (* blank.txt: a space and a newline *)
    [supported |-> TRUE, file |-> TextFile(<<" ", "\n">>)],
    (* hi.txt: Hi. *)
    [supported |-> TRUE, file |-> TextFile(<<"H", "i", ".">>)],
    (* a.txt: Kernel boots fast. *)
    [supported |-> TRUE, file |-> TextFile(Text(1))],
    (* b.md: It is what it is. *)
    [supported |-> TRUE, file |-> TextFile(Text(5))],
    (* c.txt: Shipped on 2024-03-05. *)
    [supported |-> TRUE, file |-> TextFile(Text(11))]
  >>

(* list(iter_files(input_dir)): the files whose name ends in .txt, .md or .json, *)
(* in the order os.walk lists them                                               *)
iter_files(folder) ==
  SelectSeq([k \in DOMAIN folder |-> DirTable[folder[k]]], LAMBDA f : f.supported)

(* load_text_from_file / load_text of every path; neither lets an exception through *)
texts_of(im, folder) ==
  LET all_paths == iter_files(folder)
  IN [k \in DOMAIN all_paths |-> load(im, all_paths[k].file).text]

(* "\n\n".join(texts) *)
RECURSIVE JoinParagraphs(_)
JoinParagraphs(texts) ==
  IF texts = <<>> THEN <<>>
  ELSE IF Len(texts) = 1 THEN texts[1]
  ELSE texts[1] \o <<"\n", "\n">> \o JoinParagraphs(Tail(texts))

(* corpus = "\n\n".join(all_texts), the texts that are not empty *)
corpus_of(im, folder) ==
  JoinParagraphs(SelectSeq(texts_of(im, folder), LAMBDA t : t # <<>>))

(* The number that names a sentence of the corpus *)
SentenceId(chars) == CHOOSE s \in BaseIds : Text(s) = chars

(* sorted() of theme names: the themes of THEMATIC_MAP and General by code points *)
NameOrder ==
  [k \in 1..15 |-> LET at == <<12, 6, 4, 10, 5, 0, 3, 1, 11, 9, 2, 8, 14, 7, 13>>[k]
                   IN IF at = 0 THEN GENERAL ELSE THEMATIC_MAP[at].name]

(* sorted(domain_buckets.keys()) *)
sorted_domains(buckets) == SelectSeq(NameOrder, LAMBDA d : d \in DOMAIN buckets)

(* iter_files, the loader, the join and split_sentences(corpus) *)
ReadInput ==
  /\ pc = "read"
  /\ LET found == split_sentences_of(impl, corpus_of(impl, call.input_dir))
     IN sentences' = [k \in DOMAIN found |-> SentenceId(found[k].text)]
  /\ pc' = "classify"
  /\ UNCHANGED <<calls, impl, thematic_map, target_sentences, max_per_domain, dedupe_threshold,
                 cur, bucket_keys, domain_buckets, domain_ranked, domain_order,
                 rootvars, v3vars, outvars, run, first, sizes>>

(* The timeline and the totals, after the inventories; ret is the rest of the Report *)
Totals ==
  /\ pc = "done"
  /\ call.fn = "build_report"
  /\ "input_dir" \in DOMAIN call
  /\ ret' = [timeline_dates |-> timeline_dates(impl, texts_of(impl, call.input_dir)),
             totals |-> [files_read |-> Len(iter_files(call.input_dir)),
                         sentences_total |-> Len(sentences),
                         domains |-> sorted_domains(domain_buckets)]]
  /\ pc' = "reported"
  /\ UNCHANGED <<call, inputs, cur, bucket_keys, domain_buckets, domain_ranked, domain_order,
                 rootvars, v3vars, outvars, run, first, sizes>>

(* build_report(input_dir, ...) is entered: nothing is read yet *)
StartReport(given, folder) ==
  /\ impl = given.impl
  /\ thematic_map = given.thematic_map
  /\ sentences = <<>>
  /\ target_sentences = given.target_sentences
  /\ max_per_domain = given.max_per_domain
  /\ dedupe_threshold = given.dedupe_threshold
  /\ pc = "read"
  /\ cur = 1
  /\ bucket_keys = <<>>
  /\ domain_buckets = <<>>
  /\ domain_ranked = <<>>
  /\ domain_order = <<>>
  /\ executive_summary = <<>>
  /\ domain_ranked_copy = <<>>
  /\ index = 0
  /\ picked = <<>>
  /\ quota = <<>>
  /\ canonical = <<>>
  /\ canonical_from = <<>>
  /\ pos_d = 1
  /\ pos_k = 1
  /\ canonical_sentences = <<>>
  /\ inventories = <<>>
  /\ run = 1
  /\ first = <<>>
  /\ pool_left = <<>>
  /\ picked_count = 0
  /\ call = [fn |-> "build_report", input_dir |-> folder]
  /\ ret = <<>>

Folders == SeqsUpTo(1..Len(DirTable), MaxDir)

InitReport ==
  \/ \E folder \in Folders : \E t \in {0, 100} : StartReport(RootInput(<<>>, t), folder)
  \/ \E folder \in Folders : \E m \in {"DEFAULT_THEMATIC_MAP", "no_themes"} : \E t \in {0, 100} :
       StartReport(Input("v3", m, <<>>, t, 50, [num |-> 7, den |-> 10]), folder)

NextReport ==
  \/ ReadInput
  \/ Classify
  \/ RankRoot
  \/ BalancedStep
  \/ FinishRoot
  \/ RankV3
  \/ CanonStep
  \/ FinishV3
  \/ Totals

SpecReport == InitReport /\ [][NextReport]_vars

(***************************************************************************)
(* build_report of account_summarizer.py called again on the same input    *)
(* with another target_sentences                                           *)
(***************************************************************************)
TargetCorpora == SeqsUpTo({1, 2, 4, 6}, MaxCorpus)

Targets == {0, 1, 2, 100}

(* The first call's Report is kept in first; the second call starts afresh *)
Retarget ==
  /\ pc = "done"
  /\ run = 1
  /\ impl = "root"
  /\ \E t \in Targets \ {target_sentences} : target_sentences' = t
  /\ first' = [sentences |-> sentences,
               ranked |-> domain_ranked,
               executive_summary |-> executive_summary,
               canonical |-> canonical_sentences,
               inventories |-> inventories]
  /\ run' = 2
  /\ pc' = "classify"
  /\ cur' = 1
  /\ bucket_keys' = <<>>
  /\ domain_buckets' = <<>>
  /\ domain_ranked' = <<>>
  /\ domain_order' = <<>>
  /\ executive_summary' = <<>>
  /\ domain_ranked_copy' = <<>>
  /\ index' = 0
  /\ picked' = <<>>
  /\ canonical_sentences' = <<>>
  /\ inventories' = <<>>
  /\ UNCHANGED <<calls, impl, thematic_map, sentences, max_per_domain, dedupe_threshold,
                 v3vars, sizes>>

InitTargets == \E c \in TargetCorpora : \E t \in Targets : Start(RootInput(c, t))

NextTargets ==
  \/ Classify
  \/ RankRoot
  \/ BalancedStep
  \/ FinishRoot
  \/ Retarget

SpecTargets == InitTargets /\ [][NextTargets]_vars

(***************************************************************************)
(* balanced_sample on given pools: build_report at the call, the ranked    *)
(* pools drawn freely                                                      *)
(***************************************************************************)
(* the longest pool handed to balanced_sample *)
MaxTake == 3

(* The k-th theme's ranked pool of n entries: two sentences of its own around *)
(* one that other pools hold too, scores descending                           *)
PoolOf(k, n) ==
  Prefix(<<<<Fill(k, 1), 4>>, <<7, 3>>, <<Fill(k, 2), 2>>, <<Fill(k, 3), 1>>, <<Fill(k, 4), 1>>>>, n)

ThemeNumber(d) == CHOOSE k \in DOMAIN SampleDomains : SampleDomains[k] = d

(* Mappings of up to three themes to pools of up to MaxTake entries *)
PoolMaps(n) ==
  {[d \in Range(SubSeq(SampleDomains, 1, n)) |->
      PoolOf(ThemeNumber(d), lengths[d])] :
     lengths \in [Range(SubSeq(SampleDomains, 1, n)) -> 0..MaxTake]}

StartRoundRobin(pools, keys, target_n) ==
  /\ impl = "root"
  /\ thematic_map = "THEMATIC_MAP"
  /\ sentences = <<>>
  /\ target_sentences = target_n
  /\ max_per_domain = TOP_K
  /\ dedupe_threshold = [num |-> 7, den |-> 10]
  /\ pc = "sample"
  /\ cur = 1
  /\ bucket_keys = keys
  /\ domain_buckets = <<>>
  /\ domain_ranked = pools
  /\ domain_order = domain_order_root
  /\ executive_summary = executive_summary_root(domain_order_root, pools)
  /\ domain_ranked_copy = pools
  /\ index = 0
  /\ picked = <<>>
  /\ quota = <<>>
  /\ canonical = <<>>
  /\ canonical_from = <<>>
  /\ pos_d = 1
  /\ pos_k = 1
  /\ canonical_sentences = <<>>
  /\ inventories = <<>>
  /\ run = 1
  /\ first = <<>>
  /\ pool_left = <<>>
  /\ picked_count = 0
  /\ call = [fn |-> "balanced_sample", domain_to_ranked |-> pools]
  /\ ret = <<>>

InitRoundRobin ==
  \E n \in 0..3 : \E pools \in PoolMaps(n) : \E t \in 0..(3 * MaxTake + 1) :
    StartRoundRobin(pools, SubSeq(SampleDomains, 1, n), t)

NextRoundRobin == BalancedStep \/ FinishRoot

SpecRoundRobin == InitRoundRobin /\ [][NextRoundRobin]_vars
(***************************************************************************)
(* Properties of the quota canon (account_summarizer_v3.py)                *)
(***************************************************************************)
Similarity(s, t) == jaccard(Tokens(s), Tokens(t))

(* How many entries of the canonical list theme d has contributed *)
Contributed(d) == Cardinality({k \in 1..Len(canonical_from) : canonical_from[k] = d})

(* The quota build_report allots to every theme of domain_order *)
Allotted == target_sentences \div Len(domain_order)

InQuotaCanon == impl = "v3" /\ pc \in {"canon", "done"}

(* A candidate of theme d that the dedupe test lets through against the list so far *)
Passes(s) ==
  /\ Tokens(s) # <<>>
  /\ \A k \in 1..Len(canonical) : FracLeq(Similarity(s, canonical[k]), dedupe_threshold)

(* C1: under the equal-quota policy the canonical list never holds more than        *)
(* target_sentences entries, no theme of domain_order contributes more than          *)
(* target_sentences // len(domain_order) of them, whatever the other themes left     *)
(* unused, and the reported list is the whole list.                                  *)
C1_QuotaBound ==
  InQuotaCanon =>
    /\ Len(canonical) <= target_sentences
    /\ Len(canonical_from) = Len(canonical)
    /\ \A d \in Range(domain_order) :
         /\ Contributed(d) <= Allotted
         /\ quota[d] = Allotted - Contributed(d)
    /\ \A k \in 1..Len(canonical_from) : canonical_from[k] \in Range(domain_order)
    /\ pc = "done" => canonical_sentences = canonical

(* C1's case: a finished run in which a theme used up a positive quota and had a   *)
(* further candidate that passes the dedupe test,  while another theme left quota. *)
C1_Witness ==
  /\ impl = "v3"
  /\ pc = "done"
  /\ \E d, e \in Range(domain_order) :
       /\ Allotted > 0
       /\ Contributed(d) = Allotted
       /\ \E k \in 1..Len(Get(domain_ranked, d)) :
            /\ Get(domain_ranked, d)[k][1] \notin Range(canonical)
            /\ Passes(Get(domain_ranked, d)[k][1])
       /\ e # d
       /\ quota[e] > 0

(* C2: any two distinct entries of the canonical list, whichever themes appended  *)
(* them, have Jaccard similarity of their token sets <= dedupe_threshold.         *)
C2_PairwiseDissimilar ==
  InQuotaCanon =>
    /\ \A j, k \in 1..Len(canonical) :
         j # k => FracLeq(Similarity(canonical[j], canonical[k]), dedupe_threshold)
    /\ \A j, k \in 1..Len(canonical_sentences) :
         j # k => FracLeq(Similarity(canonical_sentences[j], canonical_sentences[k]),
                          dedupe_threshold)

(* C2's case: a finished run whose list has entries of two themes, and in which a *)
(* candidate of one theme, with quota left, was turned down for its similarity to *)
(* an entry another theme had appended.                                           *)
C2_Witness ==
  /\ impl = "v3"
  /\ pc = "done"
  /\ Cardinality(Range(canonical_from)) >= 2
  /\ \E j \in 1..Len(canonical) : \E d \in Range(domain_order) :
       /\ d # canonical_from[j]
       /\ quota[d] > 0
       /\ \E k \in 1..Len(Get(domain_ranked, d)) :
            LET s == Get(domain_ranked, d)[k][1]
            IN /\ Tokens(s) # <<>>
               /\ ~FracLeq(Similarity(s, canonical[j]), dedupe_threshold)

(* C6, as claimed: at the end of the quota loop every theme whose ranked pool holds *)
(* a sentence with a non-empty token set has contributed an entry.                  *)
C6_EveryThemeContributes ==
  (impl = "v3" /\ pc = "done") =>
    \A d \in DOMAIN domain_ranked :
      (\E k \in 1..Len(domain_ranked[d]) : Tokens(domain_ranked[d][k][1]) # <<>>)
        => Contributed(d) >= 1

(***************************************************************************)
(* Properties of the round-robin canon (account_summarizer.py)             *)
(***************************************************************************)
NoRepeats(seq) == \A j, k \in 1..Len(seq) : seq[j] = seq[k] => j = k

(* C8, as claimed: the canonical list build_report returns holds no sentence twice *)
C8_CanonicalDistinct ==
  (impl = "root" /\ pc = "done") => NoRepeats(canonical_sentences)


(***************************************************************************)
(* The equal-quota scenario: three themes and General, target 10           *)
(***************************************************************************)
Scenario ==
  /\ impl = "v3"
  /\ thematic_map = "three_themes"
  /\ target_sentences = 10
  /\ pc = "done"
  /\ Len(domain_order) = 4

RoundedUp == (target_sentences + Len(domain_order) - 1) \div Len(domain_order)

(* The sentences of theme d's ranked pool that pass deduplication whatever was *)
(* accepted before them: with tokens, in no other theme's pool, and within the *)
(* threshold of every other sentence of the corpus                             *)
Candidates(d) ==
  {s \in Range(Strings(Get(domain_ranked, d))) :
     /\ Tokens(s) # <<>>
     /\ \A e \in DOMAIN domain_ranked : e # d => s \notin Range(Strings(domain_ranked[e]))
     /\ \A t \in Range(sentences) :
          t # s => FracLeq(Similarity(s, t), dedupe_threshold)}

EnoughCandidates ==
  \A d \in Range(domain_order) : Cardinality(Candidates(d)) >= RoundedUp

(* C3, as claimed: with enough candidates in every pool the scenario returns      *)
(* exactly 10 sentences, at most ceil(10/4) of them from each theme.              *)
C3_ScenarioReturnsTarget ==
  (Scenario /\ EnoughCandidates) =>
    /\ Len(canonical_sentences) = target_sentences
    /\ \A d \in Range(domain_order) : Contributed(d) <= RoundedUp

(* C3, as the code has it: with enough candidates in every pool the scenario      *)
(* returns exactly 4 * (10 // 4) = 8 sentences, 10 // 4 = 2 from each of the four *)
(* themes, which is within ceil(10/4); the remainder 10 % 4 is given to no theme. *)
C3_ScenarioReturnsQuotaTimesThemes ==
  (Scenario /\ EnoughCandidates) =>
    /\ Len(canonical_sentences) = Len(domain_order) * (target_sentences \div Len(domain_order))
    /\ Len(canonical_sentences) = 8
    /\ canonical_sentences = canonical
    /\ \A d \in Range(domain_order) :
         /\ Contributed(d) = target_sentences \div Len(domain_order)
         /\ Contributed(d) <= RoundedUp

(* C3's case: the scenario finished, General among the four themes, every theme *)
(* with at least ceil(10/4) candidates that pass deduplication.                 *)
C3_Witness ==
  /\ Scenario
  /\ EnoughCandidates
  /\ GENERAL \in Range(domain_order)
  /\ \A d \in Range(domain_order) : Len(Get(domain_ranked, d)) >= 3

(***************************************************************************)
(* balanced_sample                                                         *)
(***************************************************************************)
(* What is left in the pools; picked_count + PoolsLeft is the total number of *)
(* sentences of the mapping balanced_sample was given, as a step moves one    *)
(* sentence from a pool to picked.                                            *)
PoolsLeft == Sum([k \in 1..Len(bucket_keys) |-> pool_left[bucket_keys[k]]])

(* C4, as claimed: balanced_sample returns exactly min(target_n, total number of *)
(* sentences in all pools) sentences.                                            *)
C4_ReturnsMinOfTargetAndTotal ==
  pc = "returned" => picked_count = Min(target_sentences, picked_count + PoolsLeft)

(***************************************************************************)
(* The executive summary                                                   *)
(***************************************************************************)
(* The entries of theme d in the summary, in order *)
EntriesOf(d) == SelectSeq(executive_summary, LAMBDA e : e[1] = d)

OrderIndex(d) == CHOOSE k \in 1..Len(domain_order) : domain_order[k] = d

(* C5, as claimed: in both implementations the executive summary has at most 10 *)
(* entries, each theme's entries are its top ranked sentences, at most 2, and   *)
(* themes appear in the order of domain_order.                                  *)
C5_ExecutiveSummaryCapped ==
  (impl \in {"root", "v3"} /\ pc = "done") =>
    /\ Len(executive_summary) <= 10
    /\ \A d \in Range(domain_order) :
         /\ Len(EntriesOf(d)) <= 2
         /\ [k \in 1..Len(EntriesOf(d)) |-> EntriesOf(d)[k][2]]
              = Prefix(Strings(Get(domain_ranked, d)), Len(EntriesOf(d)))
    /\ \A j, k \in 1..Len(executive_summary) :
         j < k => OrderIndex(executive_summary[j][1]) <= OrderIndex(executive_summary[k][1])

(***************************************************************************)
(* Two runs on the same input                                              *)
(***************************************************************************)
(* C7, as claimed: the second run of build_report on the same input returns the *)
(* same sentences, the same per-theme rankings and the same canonical list in   *)
(* the same order as the first.                                                 *)
C7_SecondRunSame ==
  (run = 2 /\ pc = "done") =>
    /\ sentences = first.sentences
    /\ domain_ranked = first.ranked
    /\ canonical_sentences = first.canonical

(***************************************************************************)
(* Inventories                                                             *)
(***************************************************************************)
FirstIndex(seq, x) == CHOOSE k \in 1..Len(seq) : seq[k] = x /\ \A h \in 1..(k - 1) : seq[h] # x

(* C9: in both implementations, a theme's inventory holds sentences of its ranked *)
(* pool only, at most 10 of them, in rank order and none twice; a theme with an   *)
(* empty pool has no inventory.                                                   *)
C9_InventoryOfPool ==
  (impl \in {"root", "v3"} /\ pc = "done") =>
    /\ DOMAIN inventories \subseteq Range(domain_order)
    /\ \A d \in Range(domain_order) :
         LET pool == Strings(Get(domain_ranked, d))
         IN IF pool = <<>> THEN d \notin DOMAIN inventories
            ELSE /\ d \in DOMAIN inventories
                 /\ Range(inventories[d]) \subseteq Range(pool)
                 /\ Len(inventories[d]) <= 10
                 /\ NoRepeats(inventories[d])
                 /\ \A j, k \in 1..Len(inventories[d]) :
                      j < k => FirstIndex(pool, inventories[d][j])
                                 < FirstIndex(pool, inventories[d][k])

(* C9's case: a finished run in which one theme's pool has more than 10 distinct *)
(* sentences and a repeated sentence among its first 10 entries, its inventory   *)
(* is full, and another theme has an empty pool.                                 *)
C9_Witness ==
  /\ pc = "done"
  /\ impl \in {"root", "v3"}
  /\ \E d \in DOMAIN inventories :
       LET pool == Strings(Get(domain_ranked, d))
       IN /\ Cardinality(Range(pool)) > 10
          /\ ~NoRepeats(Prefix(pool, 10))
          /\ Len(inventories[d]) = 10
  /\ \E d \in Range(domain_order) : Get(domain_ranked, d) = <<>>

(***************************************************************************)
(* Classification                                                          *)
(***************************************************************************)
Classifying == pc \in {"classify", "assigned"}

(* The default bucket of the classifier in force *)
DefaultBucket == IF impl = "orbit" THEN SHARED_ORBIT ELSE GENERAL

(* Sentence s contains, lowercased, a keyword of the theme map[t] *)
HasKeywordOf(map, t, s) ==
  \E j \in 1..Len(map[t].kws) : Contains(lower(map[t].kws[j]), lower(Text(s)))

(* The themes of each map of which each sentence contains a keyword, computed once *)
KeywordThemes ==
  [m \in MapNames \cup {"DEFAULT_OS_KEYWORDS"} |->
     [s \in Universe |-> {Map(m)[t].name : t \in {u \in 1..Len(Map(m)) : HasKeywordOf(Map(m), u, s)}}]
       @@ <<>>] @@ <<>>

InBucket(d, s) == d \in DOMAIN domain_buckets /\ s \in Range(domain_buckets[d])

(* C10: once a sentence has been classified, it is in the bucket of every theme  *)
(* of which it contains a keyword (so in both buckets when there are two) and of *)
(* no other theme, it is in the default bucket if and only if it contains no     *)
(* keyword, and it is in at least one bucket.                                    *)
C10_FanOut ==
  Classifying =>
    \A k \in 1..(cur - 1) :
      LET s == sentences[k]
          themes == KeywordThemes[thematic_map][s]
      IN /\ \A d \in Range(Names(Map(thematic_map))) : d \in themes <=> InBucket(d, s)
         /\ InBucket(DefaultBucket, s) <=> themes = {}
         /\ \E d \in DOMAIN domain_buckets : InBucket(d, s)

(* C10's case: assign_orbits has put one sentence in the buckets of two orbits *)
(* and another, without keyword, in the shared bucket only.                    *)
C10_Witness ==
  /\ impl = "orbit"
  /\ pc = "assigned"
  /\ \E s \in Range(sentences) :
       /\ Cardinality({d \in DOMAIN domain_buckets : InBucket(d, s)}) = 2
       /\ ~InBucket(SHARED_ORBIT, s)
  /\ \E s \in Range(sentences) :
       {d \in DOMAIN domain_buckets : InBucket(d, s)} = {SHARED_ORBIT}

(***************************************************************************)
(* Sentences without tokens                                                *)
(***************************************************************************)
(* The tokens the implementation in force extracts from a sentence *)
TokensOf(s) == IF impl = "orbit" THEN TokensOrbit(s) ELSE Tokens(s)

Ranked(pool) == \A k \in DOMAIN pool : TokensOf(pool[k][1]) # <<>>

(* C11: in the TF-IDF pipelines (scripts/account_summarizer.py and              *)
(* account_summarizer_v3.py) a sentence with no tokens is in no ranked pool, no   *)
(* inventory and not in the executive summary; ranking leaves the buckets as      *)
(* classification filled them.                                                    *)
C11_NoTokenlessSentenceRanked ==
  impl \in {"v3", "orbit"} =>
    /\ \A d \in DOMAIN domain_ranked : Ranked(domain_ranked[d])
    /\ \A d \in DOMAIN inventories :
         \A k \in DOMAIN inventories[d] : TokensOf(inventories[d][k]) # <<>>
    /\ \A k \in DOMAIN executive_summary : TokensOf(executive_summary[k][2]) # <<>>
    /\ (pc = "done" /\ cur > Len(sentences)) =>
         \A d \in DOMAIN domain_buckets :
           domain_buckets[d] = SelectSeq(sentences,
                                 LAMBDA s : \E doms \in (IF impl = "orbit" THEN {OrbitTable[s]}
                                                         ELSE DomainListTable[thematic_map][s]) :
                                              d \in Range(doms))

(***************************************************************************)
(* Ranking                                                                 *)
(***************************************************************************)
ScoreIn(scored, s) == scored[CHOOSE k \in DOMAIN scored : scored[k][1] = s][2]

(* The sentences of a bucket the ranker scores: all of them, or the ones with *)
(* tokens in scripts/account_summarizer.py                                    *)
Scorable(im, sents) ==
  IF im = "orbit" THEN SelectSeq(sents, LAMBDA s : TokensOrbit(s) # <<>>) ELSE sents

(* C12: every ranker returns the sentences it scores in descending score order, *)
(* sentences with equal scores in their input order, and the pool kept holds    *)
(* the first top_k / max_per_domain of that list and no more.                   *)
C12_DescendingStableCapped ==
  (pc = "returned" /\ call.fn = "rank") =>
    LET scored == ret.scored
        given == Scorable(call.impl, call.sentences)
    IN /\ \A j \in 1..(Len(scored) - 1) : scored[j][2] >= scored[j + 1][2]
       /\ Len(scored) = Len(given)
       /\ Range(Strings(scored)) = Range(given)
       /\ \A k \in DOMAIN scored :
            LET tied(s) == ScoreIn(scored, s) = scored[k][2]
            IN SelectSeq(Strings(scored), tied) = SelectSeq(given, tied)
       /\ Len(ret.pool) = Min(call.top_k, Len(scored))
       /\ ret.pool = SubSeq(scored, 1, Len(ret.pool))

C12_Witness ==
  /\ pc = "returned"
  /\ call.fn = "rank"
  /\ Len(ret.pool) = 2
  /\ Len(ret.scored) = 3
  /\ ret.scored[1][2] = ret.scored[2][2]
  /\ ret.scored[1][1] # ret.scored[2][1]
  /\ ret.scored[3][2] < ret.scored[2][2]
  /\ call.sentences[1] = ret.scored[3][1]

(***************************************************************************)
(* Loading                                                                 *)
(***************************************************************************)
(* C13: in every loader a file that cannot be opened, or whose bytes are not *)
(* UTF-8, contributes empty text, and the loading loop goes on: no such file *)
(* ends the run.                                                             *)
C13_UnreadableFileIsEmptyText ==
  call.fn = "load" =>
    /\ pc # "raised"
    /\ \A k \in DOMAIN ret : FileTable[call.files[k]].status # "ok" => ret[k] = <<>>

(* The elements JSON text extraction reads: those of the "messages" array of an *)
(* object, or of an array; none for any other value                             *)
HasElements(data) ==
  \/ data.t = "list"
  \/ data.t = "dict" /\ Has(data, MESSAGES) /\ Member(data, MESSAGES).t = "list"

Elements(data) == IF data.t = "list" THEN data.v ELSE Member(data, MESSAGES).v

StringContent(x) == x.t = "dict" /\ Has(x, CONTENT) /\ Member(x, CONTENT).t = "str"

(* C15: the text of a readable .json file is the newline-join of the string-valued *)
(* content fields of the elements (whatever else the elements are) when the parsed *)
(* value is an object with a "messages" array or is an array, and the raw text     *)
(* when the file is not valid JSON or has any other shape.                          *)
C15_JsonExtraction ==
  call.fn = "load" =>
    \A k \in DOMAIN ret :
      LET file == FileTable[call.files[k]]
          with_content == SelectSeq(Elements(file.parsed), StringContent)
      IN (file.status = "ok" /\ file.json) =>
           IF HasElements(file.parsed)
           THEN ret[k] = Join([j \in 1..Len(with_content) |-> Member(with_content[j], CONTENT).v])
           ELSE ret[k] = file.raw

(***************************************************************************)
(* External keyword file                                                   *)
(***************************************************************************)
(* C14: in both CLIs a keyword file whose parsed JSON value is no object ends the *)
(* run with a configuration error before build_summary / build_report is called;  *)
(* the pipeline is never entered with a map that is no mapping.                   *)
C14_NonObjectConfigRejected ==
  call.fn = "main" =>
    /\ (/\ call.config # 0
        /\ ConfigTable[call.config].exists
        /\ ConfigTable[call.config].parsed.t \notin {"dict", "invalid"})
         => pc \in {"call", "SystemExit"}
    /\ pc \in {"build", "indexed", "raised"} => ret.t \in {"dict", "default"}

(***************************************************************************)
(* Tokens                                                                  *)
(***************************************************************************)
(* C17: every tokenize returns lowercase tokens only, none of them a stop-word of *)
(* its file and none of length 1; license-gate comes back as one token.           *)
C17_TokensLowercaseNoStopwordNoSingle ==
  (pc = "returned" /\ call.fn = "tokenize") =>
    /\ \A k \in DOMAIN ret :
         /\ lower(ret[k]) = ret[k]
         /\ ret[k] \notin (IF call.impl = "orbit" THEN STOPWORDS_orbit ELSE STOPWORDS)
         /\ Len(ret[k]) # 1
    /\ call.text = Words[1] => ret = <<lower(Words[1])>>

(***************************************************************************)
(* Segmentation                                                            *)
(***************************************************************************)
Splitting(im) == pc = "returned" /\ call.fn = "split_sentences" /\ call.impl \in im

(* the token right before the boundary that follows segment k is an abbreviation *)
AbbreviationBefore(tentative, k) == lower(LastToken(tentative[k])) \in ABBREV

(* C18: in split_sentences of account_summarizer_v3.py, when the token right before *)
(* a split boundary is in ABBREV, no sentence starts at that boundary and the       *)
(* segment after it (if it is long enough to be kept) follows the segment before it *)
(* in one sentence; a sentence is made of segments that are neighbours in the text. *)
C18_AbbreviationMerge ==
  Splitting({"v3"}) =>
    LET tentative == Tentative(call.text)
    IN /\ \A k \in 1..(Len(tentative) - 1) :
            AbbreviationBefore(tentative, k) =>
              /\ \A n \in DOMAIN ret : ret[n].segments[1] # k + 1
              /\ KeepSegment(tentative[k + 1], MIN_LENGTH) =>
                   \E n \in DOMAIN ret : \E j \in 1..(Len(ret[n].segments) - 1) :
                     ret[n].segments[j] = k /\ ret[n].segments[j + 1] = k + 1
       /\ \A n \in DOMAIN ret : \A j \in 1..(Len(ret[n].segments) - 1) :
            ret[n].segments[j + 1] = ret[n].segments[j] + 1

NoBoundary(text) == \A i, j \in 1..Len(text) : ~Boundary(text, i, j)

LeastLength(im) == IF im = "orbit" THEN MIN_LENGTH_orbit ELSE MIN_LENGTH

Trimmed(s) == s # <<>> /\ s[1] \notin WHITESPACE /\ s[Len(s)] \notin WHITESPACE

(* C19 as stated: split_sentences returns the whole whitespace-normalised text as *)
(* a single segment when the text has no split boundary, and nothing for empty or *)
(* whitespace-only text; every sentence returned is trimmed and at least 10 (12)  *)
(* characters long.                                                               *)
C19_NoBoundaryWholeText ==
  Splitting({"root", "v3", "orbit"}) =>
    LET normalized == strip(Collapse(call.text))
    IN /\ normalized = <<>> => ret = <<>>
       /\ (normalized # <<>> /\ NoBoundary(normalized)) =>
            (Len(ret) = 1 /\ ret[1].text = normalized)
       /\ \A n \in DOMAIN ret :
            Trimmed(ret[n].text) /\ Len(ret[n].text) >= LeastLength(call.impl)

(* C19 amended: the whole normalised text is returned as a single segment when it *)
(* has no split boundary and is at least 10 (12) characters long; a shorter one   *)
(* gives the empty list, as empty and whitespace-only text do.                    *)
C19_NoBoundaryWholeTextIfLongEnough ==
  Splitting({"root", "v3", "orbit"}) =>
    LET normalized == strip(Collapse(call.text))
    IN /\ normalized = <<>> => ret = <<>>
       /\ (normalized # <<>> /\ NoBoundary(normalized)) =>
            IF Len(normalized) >= LeastLength(call.impl)
            THEN Len(ret) = 1 /\ ret[1].text = normalized
            ELSE ret = <<>>
       /\ \A n \in DOMAIN ret :
            Trimmed(ret[n].text) /\ Len(ret[n].text) >= LeastLength(call.impl)

C19_Witness ==
  /\ Splitting({"root", "v3", "orbit"})
  /\ NoBoundary(strip(Collapse(call.text)))
  /\ Len(ret) = 1
  /\ ret[1].text # call.text
  /\ Len(ret[1].text) = LeastLength(call.impl)

(***************************************************************************)
(* Date timeline                                                           *)
(***************************************************************************)
(* The number a decimal digit stands for *)
DigitValue(c) == IF c = "U+0663" THEN 3 ELSE Code(c) - 3

TwoDigits(a, b) == 10 * DigitValue(a) + DigitValue(b)

(* text[i..i+9] is dddd-dd-dd or dddd/dd/dd, month within 01-12, day within 01-31 *)
TripleInRange(text, i) ==
  /\ i >= 1 /\ i + 9 <= Len(text)
  /\ \A k \in {0, 1, 2, 3, 5, 6, 8, 9} : text[i + k] \in DECIMAL_DIGITS
  /\ text[i + 4] \in {"-", "/"} /\ text[i + 7] \in {"-", "/"}
  /\ TwoDigits(text[i + 5], text[i + 6]) \in 1..12
  /\ TwoDigits(text[i + 8], text[i + 9]) \in 1..31

(* a date of this century in ASCII digits that touches no letter or digit *)
Occurrence(text, i) ==
  /\ TripleInRange(text, i)
  /\ \A k \in {0, 1, 2, 3, 5, 6, 8, 9} : text[i + k] \in Digits
  /\ text[i] = "2" /\ text[i + 1] = "0"
  /\ i = 1 \/ text[i - 1] \notin WORD_CHARS
  /\ i + 9 = Len(text) \/ text[i + 10] \notin WORD_CHARS

(* C20: the timeline of both build_report is in ascending order without duplicates *)
(* across the files; every entry is YYYY-MM-DD with month 01-12 and day 01-31, the  *)
(* hyphenated form of a triple written with - or / in some file; a triple with     *)
(* month or day out of range gives no entry; and "Launched on 2024-03-05 and        *)
(* revised 2024/13/40" gives exactly 2024-03-05.                                    *)
C20_TimelineSortedUniqueInRange ==
  (pc = "returned" /\ call.fn = "timeline") =>
    /\ \A k \in 1..(Len(ret) - 1) : StrLess(ret[k], ret[k + 1])
    /\ \A k \in DOMAIN ret :
         /\ Len(ret[k]) = 10
         /\ ret[k][5] = "-" /\ ret[k][8] = "-"
         /\ TripleInRange(ret[k], 1)
         /\ \E f \in DOMAIN call.texts : \E i \in 1..Len(call.texts[f]) :
              /\ TripleInRange(call.texts[f], i)
              /\ \A h \in {0, 1, 2, 3, 5, 6, 8, 9} : ret[k][h + 1] = call.texts[f][i + h]
    /\ \A f \in DOMAIN call.texts : \A i \in 1..Len(call.texts[f]) :
         Occurrence(call.texts[f], i) =>
           \E k \in DOMAIN ret :
             \A h \in {0, 1, 2, 3, 5, 6, 8, 9} : ret[k][h + 1] = call.texts[f][i + h]
    /\ call.texts = <<DateFragments[1]>> => ret = <<DateFragments[2]>>

C20_Witness ==
  /\ pc = "returned"
  /\ call.fn = "timeline"
  /\ Len(call.texts) = 2
  /\ Occurrence(call.texts[1], 1) /\ call.texts[1][5] = "/"
  /\ Occurrence(call.texts[2], 1) /\ call.texts[2][5] = "-"
  /\ Len(ret) = 1

(***************************************************************************)
(* Empty corpus                                                            *)
(***************************************************************************)
(* The directory holds no supported file, or every supported file loads as "" *)
NoText ==
  /\ call.fn = "build_report"
  /\ "input_dir" \in DOMAIN call
  /\ \A k \in DOMAIN texts_of(impl, call.input_dir) : texts_of(impl, call.input_dir)[k] = <<>>

(* C16: when the input directory has no supported file, or none of them yields text, *)
(* build_report of account_summarizer.py and of account_summarizer_v3.py does not    *)
(* fail, and the Report has an empty executive summary, canonical list, inventories  *)
(* and timeline, files_read = 0, sentences_total = 0 and no domains.                 *)
C16_EmptyCorpusEmptyReport ==
  NoText =>
    /\ pc # "raised"
    /\ pc = "reported" =>
         /\ executive_summary = <<>>
         /\ canonical_sentences = <<>>
         /\ DOMAIN inventories = {}
         /\ ret.timeline_dates = <<>>
         /\ ret.totals.files_read = 0
         /\ ret.totals.sentences_total = 0
         /\ ret.totals.domains = <<>>

(***************************************************************************)
(* The ranked pools and the canonical sampling                             *)
(***************************************************************************)
(* The pools as RankRoot made them from the buckets *)
RankedPools == [d \in DOMAIN domain_buckets |-> rank_sentences(domain_buckets[d], TOP_K)]

(* C21: in account_summarizer.py balanced_sample consumes only the copy it is   *)
(* given: while it runs and after it returns, domain_ranked holds the same pools *)
(* in the same order as before, and the executive summary and the inventories of *)
(* a second Report on the same input with another target_sentences are those of  *)
(* the first.                                                                    *)
C21_SamplingLeavesPoolsAlone ==
  /\ [](impl = "root" =>
          /\ pc \in {"sample", "break", "done"} => domain_ranked = RankedPools
          /\ (run = 2 /\ pc = "done") =>
               /\ domain_ranked = first.ranked
               /\ executive_summary = first.executive_summary
               /\ inventories = first.inventories)
  /\ [][(impl = "root" /\ pc \in {"sample", "break"}) =>
          /\ domain_ranked' = domain_ranked
          /\ bucket_keys' = bucket_keys
          /\ executive_summary' = executive_summary]_vars

(* two pools were sampled from in the second run, with sentences left in the *)
(* copy, and the first run had sampled nothing                               *)
C21_Witness ==
  /\ impl = "root"
  /\ run = 2
  /\ pc = "done"
  /\ Len(first.canonical) = 0
  /\ Len(canonical_sentences) = 2
  /\ Len(sentences) = 3
  /\ Len(bucket_keys) = 2
  /\ \E d \in DOMAIN inventories : Len(inventories[d]) = 2
  /\ \A d \in DOMAIN domain_ranked_copy : Len(domain_ranked_copy[d]) < Len(domain_ranked[d])

(***************************************************************************)
(* Round-robin balance                                                     *)
(***************************************************************************)
(* how many sentences balanced_sample has popped from a theme's pool *)
Taken(d) == Len(domain_ranked[d]) - Len(domain_ranked_copy[d])

RECURSIVE IsSubsequence(_, _)
IsSubsequence(part, whole) ==
  IF part = <<>> THEN TRUE
  ELSE IF whole = <<>> THEN FALSE
  ELSE IF Head(part) = Head(whole) THEN IsSubsequence(Tail(part), Tail(whole))
  ELSE IsSubsequence(part, Tail(whole))

(* C22: at every point of balanced_sample's loop and at its return, what was taken *)
(* from a theme is a prefix of the theme's ranked pool, in rank order in the list  *)
(* of picked sentences, and the numbers taken from two themes differ by at most    *)
(* one unless the pool of the theme with fewer taken is exhausted.                 *)
C22_RoundRobinBalance ==
  (call.fn = "balanced_sample" /\ pc \in {"sample", "break", "done"}) =>
    /\ \A d \in DOMAIN domain_ranked :
         /\ Taken(d) >= 0
         /\ domain_ranked_copy[d] =
              SubSeq(domain_ranked[d], Taken(d) + 1, Len(domain_ranked[d]))
         /\ IsSubsequence(Strings(Prefix(domain_ranked[d], Taken(d))), picked)
    /\ Len(picked) = Sum([k \in DOMAIN bucket_keys |-> Taken(bucket_keys[k])])
    /\ \A d \in DOMAIN domain_ranked : \A e \in DOMAIN domain_ranked :
         Taken(d) > Taken(e) + 1 => domain_ranked_copy[e] = <<>>
    /\ pc = "done" => canonical_sentences = picked

(* returned with three taken from one theme, one from an exhausted one and two *)
(* from a third that has more                                                  *)
C22_Witness ==
  /\ call.fn = "balanced_sample"
  /\ pc = "done"
  /\ \E d \in DOMAIN domain_ranked : \E e \in DOMAIN domain_ranked : \E f \in DOMAIN domain_ranked :
       /\ Taken(d) = 3
       /\ Taken(e) = 1 /\ domain_ranked_copy[e] = <<>>
       /\ Taken(f) = 2 /\ domain_ranked_copy[f] # <<>>

(***************************************************************************)
(* The quota of account_summarizer_v3.py                                   *)
(***************************************************************************)
(* C23: in build_report of account_summarizer_v3.py the quota is always defined: *)
(* whatever the theme map (also one without themes) and the corpus (also an      *)
(* empty one), domain_order is not empty wherever target_sentences //            *)
(* len(domain_order) is evaluated, every theme of domain_order gets that share,  *)
(* and build_report does not raise.                                              *)
C23_QuotaAlwaysDefined ==
  impl = "v3" =>
    /\ pc # "raised"
    /\ pc \in {"canon", "done"} =>
         /\ DOMAIN quota = Range(domain_order)
         /\ \A dom \in Range(domain_order) : Len(domain_order) > 0
         /\ pc = "canon" /\ canonical = <<>> =>
              \A dom \in Range(domain_order) :
                quota[dom] = target_sentences \div Len(domain_order)

(* a Report from a map without themes and an empty corpus: no theme, no quota *)
C23_Witness ==
  /\ impl = "v3"
  /\ pc = "done"
  /\ thematic_map = "no_themes"
  /\ sentences = <<>>
  /\ domain_order = <<>>
  /\ DOMAIN quota = {}
  /\ canonical_sentences = <<>>
=============================================================================
